---- MODULE Spec2Model ----
(***************************************************************************)
(* A model of nats-jwt-rs: the claims envelope, its encode / decode        *)
(* pipeline (src/src/lib.rs), the payload family and its serde wire        *)
(* format (user.rs, operator.rs, account.rs, activation.rs,                *)
(* authorization.rs, types.rs) and the activation hash (activation.rs).    *)
(*                                                                         *)
(* Representation.                                                         *)
(*   Option<T>      a set: None is {}, Some(x) is {x}.                     *)
(*   String         a TLA+ string; \o is concatenation.                    *)
(*   Vec<String>    a sequence of strings.                                 *)
(*   JSON value     a tagged tuple: <<"str", s>>, <<"num", n>>,            *)
(*                  <<"bool", b>>, <<"null">>, <<"arr", seq>>,             *)
(*                  <<"obj", f>> with f a function from the keys present.  *)
(*   bytes          <<"json", v, form>>: a JSON text of value v; form 0 is *)
(*                  the text serde_json::to_string writes, any other form  *)
(*                  is another text of the same value (white space, key    *)
(*                  order);  <<"sig", pub, msg>>: the ed25519 signature of *)
(*                  msg under the seed of pub;  <<"junk", n>>: other bytes.*)
(*   segment        <<"b64", bytes>>: the unpadded url-safe base64 text of *)
(*                  bytes;  <<"bad", n>>: a text that is not base64.       *)
(*   token          the sequence of its '.'-separated segments, which is   *)
(*                  what token.split('.') returns.                         *)
(* SHA-512/256 and ed25519 are ideal: the digest is injective and a        *)
(* signature verifies only for the key and the message it was made with.   *)
(***************************************************************************)
EXTENDS Integers, Sequences, FiniteSets, TLC

VARIABLES
    now,        \* the system clock, Unix seconds
    ty,         \* the payload type T of the Claims<T> at hand
    env,        \* the caller's Claims<T>
    nset,       \* field assignments made on env since its construction
    signer,     \* the KeyPair given to the last encode
    encAt,      \* the clock value at the last encode
    encoded,    \* the result of the last encode: [err, token]
    token,      \* the token text at hand, as its segments
    edit,       \* what was altered in token since encode returned it
    res,        \* the result of the last Claims::<T>::decode(token)
    cleanArg,   \* the argument of the last clean_subject
    cleanRes,   \* the result of clean_subject(cleanArg), as an Option
    hashRes,    \* the result of the last Activation::hash(env)
    issues,     \* ValidationResults.issues
    hist,       \* the calls made on the ValidationResults so far
    answer,     \* the last is_blocking call since the last add, as an Option
    convIn,     \* the value given to the conversion under study
    convOut     \* what the conversion made of convIn, as an Option

valVars == <<issues, hist, answer>>
callVars == <<convIn, convOut>>
vars == <<now, ty, env, nset, signer, encAt, encoded, token, edit, res,
          cleanArg, cleanRes, hashRes, valVars, callVars>>

----------------------------------------------------------------------------
(* Bounds of the model. *)

MaxClock == 2
MaxSet == 1
MaxTokens == 3

----------------------------------------------------------------------------
(* Option, JSON values, bytes and segments. *)

None == {}
Some(x) == {x}

JStr(s) == <<"str", s>>
JNum(n) == <<"num", n>>
JBool(b) == <<"bool", b>>
JNull == <<"null">>
JArr(s) == <<"arr", s>>
JObj(pairs) ==
    <<"obj", [k \in {p[1] : p \in pairs} |-> (CHOOSE p \in pairs : p[1] = k)[2]]>>

JStrs(v) == JArr([i \in 1..Len(v) |-> JStr(v[i])])

IsStr(j) == j[1] = "str"
IsNum(j) == j[1] = "num"
IsBool(j) == j[1] = "bool"
IsObj(j) == j[1] = "obj"
IsNullJ(j) == j[1] = "null"
IsStrs(j) == j[1] = "arr" /\ \A i \in 1..Len(j[2]) : IsStr(j[2][i])

Has(o, k) == k \in DOMAIN o
\* A field of type Option<_>: a missing key or a null reads as None.
Unset(o, k) == ~Has(o, k) \/ IsNullJ(o[k])

\* serde_json::to_string: the compact text, fields in declaration order.
to_string(j) == <<"json", j, 0>>
\* serde_json::from_slice: <<TRUE, value>>, or <<FALSE>> for bytes that are
\* not a JSON text.
from_slice(b) == IF b[1] = "json" THEN <<TRUE, b[2]>> ELSE <<FALSE>>

\* URL_SAFE_NO_PAD
b64_encode(b) == <<"b64", b>>
b64_decode(s) == IF s[1] = "b64" THEN <<TRUE, s[2]>> ELSE <<FALSE>>

----------------------------------------------------------------------------
(* nkeys::KeyPair, and the digest. *)

\* The strings that are public nkeys.
PublicKeys == {"K1", "K2", "K3"}
\* K3 is held as a public key only (KeyPair::from_public_key): it cannot sign.
KeyPairs == {[pub |-> "K1", seed |-> TRUE], [pub |-> "K2", seed |-> TRUE],
             [pub |-> "K3", seed |-> FALSE]}

public_key(kp) == kp.pub
\* KeyPair::sign: <<TRUE, signature bytes>>, or <<FALSE>> without a seed.
sign(kp, msg) == IF kp.seed THEN <<TRUE, <<"sig", kp.pub, msg>>>> ELSE <<FALSE>>
\* KeyPair::from_public_key
from_public_key(s) == IF s \in PublicKeys THEN <<TRUE, s>> ELSE <<FALSE>>
\* KeyPair::verify
verify(pub, msg, sigbytes) ==
    sigbytes[1] = "sig" /\ sigbytes[2] = pub /\ sigbytes[3] = msg

\* Sha512_256 then BASE32_NOPAD: an injective rendering of the input.
digest_base32(bytes) == "H" \o ToString(bytes)

----------------------------------------------------------------------------
(* The payload family: default values.  A struct is a record of its fields. *)

HEADER_TYPE == "JWT"
HEADER_ALGORITHM == "ed25519-nkey"
NO_LIMIT == -1

\* ClaimType, by its snake_case wire name.
ClaimTypes == {"operator", "account", "user", "activation",
               "authorization_request", "authorization_response", "generic"}
\* ExportType, by its lowercase wire name.
ExportTypes == {"unknown", "stream", "service"}

PayloadTypes == {"Operator", "Account", "User", "Activation", "AuthRequest",
                 "AuthResponse"}

GenericFields_default == [tags |-> None, claim_type |-> "generic", version |-> 2]

Permission_default == [allow |-> <<>>, deny |-> <<>>]
Permissions_default ==
    [publish |-> Permission_default, subscribe |-> Permission_default, resp |-> None]
NatsLimits_default ==
    [subs |-> Some(NO_LIMIT), data |-> Some(NO_LIMIT), payload |-> Some(NO_LIMIT)]
UserPermissionLimits_default ==
    [permissions |-> Permissions_default, limits |-> None, bearer_token |-> None,
     allowed_connection_types |-> None]

Operator_default ==
    [signing_keys |-> None, account_server_url |-> None,
     operator_service_urls |-> None, system_account |-> None,
     assert_server_version |-> None, strict_signing_key_usage |-> None,
     generic_fields |-> [GenericFields_default EXCEPT !.claim_type = "operator"]]

User_default ==
    [issuer_account |-> None, permissions |-> UserPermissionLimits_default,
     generic_fields |-> [GenericFields_default EXCEPT !.claim_type = "user"]]

Activation_default ==
    [import_subject |-> "", import_type |-> None, issuer_account |-> "",
     generic_fields |-> [GenericFields_default EXCEPT !.claim_type = "activation"]]

AccountLimits_default ==
    [imports |-> Some(NO_LIMIT), exports |-> Some(NO_LIMIT),
     wildcard_exports |-> Some(TRUE), disallow_bearer |-> None,
     conn |-> Some(NO_LIMIT), leaf |-> Some(NO_LIMIT)]
JetStreamLimits_default ==
    [memory_storage |-> None, disk_storage |-> None, streams |-> None,
     consumer |-> None, max_ack_pending |-> None, mem_max_stream_bytes |-> None,
     disk_max_stream_bytes |-> None, max_bytes_required |-> None]
OperatorLimits_default_unlimited ==
    [nats |-> Some(NatsLimits_default), account |-> Some(AccountLimits_default),
     jetstream |-> Some([memory_storage |-> Some(NO_LIMIT),
                         disk_storage |-> Some(NO_LIMIT), streams |-> Some(NO_LIMIT),
                         consumer |-> Some(NO_LIMIT), max_ack_pending |-> None,
                         mem_max_stream_bytes |-> None,
                         disk_max_stream_bytes |-> None,
                         max_bytes_required |-> None]),
     tiered_limits |-> None]

\* tiered_limits: a BTreeMap, as the set of its <<tier, Limits>> entries
OperatorLimits_default ==
    [nats |-> Some(NatsLimits_default), account |-> Some(AccountLimits_default),
     jetstream |-> None, tiered_limits |-> None]
\* imports, exports, signing_keys, revocations, mappings, authorization, trace
\* and info are None in every Account built here and are left out of the
\* record: an unset one is skipped on write and read back as None.
Account_default ==
    [limits |-> Some(OperatorLimits_default),
     default_permissions |-> Some(Permissions_default),
     generic_fields |-> [GenericFields_default EXCEPT !.claim_type = "account"]]

ServerID_default ==
    [name |-> "", host |-> "", id |-> "", version |-> None, cluster |-> None,
     tags |-> None, xkey |-> None]
ClientInfo_default ==
    [host |-> "", id |-> 0, user |-> "", name |-> None, tags |-> None,
     name_tag |-> "", kind |-> "", client_type |-> "", mqtt |-> None, nonce |-> ""]
ConnectOpts_default ==
    [jwt |-> None, nkey |-> None, sig |-> None, auth_token |-> None, user |-> None,
     pass |-> None, name |-> None, lang |-> None, version |-> None, protocol |-> 0]
ClientTLS_default ==
    [version |-> "", cipher |-> "", certs |-> <<>>, verified_chains |-> <<>>]
AuthRequest_new ==
    [server |-> ServerID_default, user_nkey |-> "", client_info |-> ClientInfo_default,
     connect_opts |-> ConnectOpts_default, client_tls |-> None,
     request_nonce |-> None, generic_fields |-> GenericFields_default]

AuthResponse_generic ==
    [jwt |-> "", error |-> "", issuer_account |-> None,
     generic_fields |->
        [GenericFields_default EXCEPT !.claim_type = "authorization_response"]]

\* Claims::new
Claims_new(nats) ==
    [aud |-> None, exp |-> None, iat |-> 0, id |-> None, iss |-> "", jti |-> "",
     name |-> None, nats |-> nats, nbf |-> None, sub |-> ""]

\* Operator / Account / User / Activation ::new_claims(name, nkey)
new_claims(T, name, nkey) ==
    LET nats == CASE T = "Operator" -> Operator_default
                  [] T = "Account" -> Account_default
                  [] T = "User" -> User_default
                  [] T = "Activation" -> Activation_default
    IN  [Claims_new(nats) EXCEPT !.name = Some(name), !.sub = nkey]

\* AuthResponse::generic_claim(nkey)
generic_claim(nkey) == [Claims_new(AuthResponse_generic) EXCEPT !.sub = nkey]

----------------------------------------------------------------------------
(* Serialize, as serde derives it from the attributes of each struct.  A    *)
(* struct gives the set of its <<key, value>> pairs; #[serde(flatten)] is   *)
(* the union of the pairs of the inner struct with those of the outer one.  *)

The(opt) == CHOOSE v \in opt : TRUE

\* Option fields with skip_serializing_if = "Option::is_none"
SkipStr(k, opt) == {<<k, JStr(v)>> : v \in opt}
SkipNum(k, opt) == {<<k, JNum(v)>> : v \in opt}
SkipBool(k, opt) == {<<k, JBool(v)>> : v \in opt}
SkipStrs(k, opt) == {<<k, JStrs(v)>> : v \in opt}
\* String fields with skip_serializing_if = "String::is_empty"
SkipEmpty(k, s) == IF s = "" THEN {} ELSE {<<k, JStr(s)>>}
\* Option fields with no skip attribute: None is written as null
NullStr(k, opt) == {<<k, IF opt = None THEN JNull ELSE JStr(The(opt))>>}
NullStrs(k, opt) == {<<k, IF opt = None THEN JNull ELSE JStrs(The(opt))>>}

GenericFields_ser(g) ==
    SkipStrs("tags", g.tags)
        \cup {<<"type", JStr(g.claim_type)>>, <<"version", JNum(g.version)>>}

Permission_ser(p) ==
    JObj((IF p.allow = <<>> THEN {} ELSE {<<"allow", JStrs(p.allow)>>})
            \cup (IF p.deny = <<>> THEN {} ELSE {<<"deny", JStrs(p.deny)>>}))
ResponsePermission_ser(r) ==
    JObj({<<"max", JNum(r.max_messages)>>}
            \cup (IF r.ttl = 0 THEN {} ELSE {<<"ttl", JNum(r.ttl)>>}))
Permissions_ser(p) ==
    {<<"pub", Permission_ser(p.publish)>>, <<"sub", Permission_ser(p.subscribe)>>}
        \cup {<<"resp", ResponsePermission_ser(r)>> : r \in p.resp}

NatsLimits_ser(n) ==
    SkipNum("subs", n.subs) \cup SkipNum("data", n.data)
        \cup SkipNum("payload", n.payload)
TimeRange_ser(t) == JObj({<<"start", JStr(t.start)>>, <<"end", JStr(t.end)>>})
UserLimits_ser(u) ==
    {<<"src", JStrs(u.src)>>,
     <<"times", JArr([i \in 1..Len(u.times) |-> TimeRange_ser(u.times[i])])>>,
     <<"locale", JStr(u.locale)>>}
Limits_ser(l) ==
    UNION {UserLimits_ser(u) : u \in l.user_limits}
        \cup UNION {NatsLimits_ser(n) : n \in l.nats_limits}
UserPermissionLimits_ser(p) ==
    Permissions_ser(p.permissions)
        \cup UNION {Limits_ser(l) : l \in p.limits}
        \cup SkipBool("bearer_token", p.bearer_token)
        \cup SkipStrs("allowed_connection_types", p.allowed_connection_types)

User_ser(u) ==
    SkipStr("issuer_account", u.issuer_account)
        \cup UserPermissionLimits_ser(u.permissions)
        \cup GenericFields_ser(u.generic_fields)

Operator_ser(o) ==
    SkipStrs("signing_keys", o.signing_keys)
        \cup SkipStr("account_server_url", o.account_server_url)
        \cup SkipStrs("operator_service_urls", o.operator_service_urls)
        \cup SkipStr("system_account", o.system_account)
        \cup SkipStr("assert_server_version", o.assert_server_version)
        \cup SkipBool("strict_signing_key_usage", o.strict_signing_key_usage)
        \cup GenericFields_ser(o.generic_fields)

Activation_ser(a) ==
    SkipEmpty("import_subject", a.import_subject)
        \cup SkipStr("import_type", a.import_type)
        \cup SkipEmpty("issuer_account", a.issuer_account)
        \cup GenericFields_ser(a.generic_fields)

AccountLimits_ser(a) ==
    SkipNum("imports", a.imports) \cup SkipNum("exports", a.exports)
        \cup SkipBool("wildcards", a.wildcard_exports)
        \cup SkipBool("disallow_bearer", a.disallow_bearer)
        \cup SkipNum("conn", a.conn) \cup SkipNum("leaf", a.leaf)
JetStreamLimits_ser(j) ==
    SkipNum("mem_storage", j.memory_storage)
        \cup SkipNum("disk_storage", j.disk_storage)
        \cup SkipNum("streams", j.streams) \cup SkipNum("consumer", j.consumer)
        \cup SkipNum("max_ack_pending", j.max_ack_pending)
        \cup SkipNum("mem_max_stream_bytes", j.mem_max_stream_bytes)
        \cup SkipNum("disk_max_stream_bytes", j.disk_max_stream_bytes)
        \cup SkipBool("max_bytes_required", j.max_bytes_required)
OperatorLimits_ser(l) ==
    JObj(UNION {NatsLimits_ser(n) : n \in l.nats}
            \cup UNION {AccountLimits_ser(a) : a \in l.account}
            \cup UNION {JetStreamLimits_ser(j) : j \in l.jetstream}
            \cup UNION {{<<e[1], JObj(Limits_ser(e[2]))>> : e \in m} :
                          m \in l.tiered_limits})
Account_ser(a) ==
    {<<"limits", OperatorLimits_ser(l)>> : l \in a.limits}
        \cup {<<"default_permissions", JObj(Permissions_ser(p))>> :
                p \in a.default_permissions}
        \cup GenericFields_ser(a.generic_fields)

ServerID_ser(s) ==
    JObj({<<"name", JStr(s.name)>>, <<"host", JStr(s.host)>>, <<"id", JStr(s.id)>>}
            \cup SkipStr("version", s.version) \cup SkipStr("cluster", s.cluster)
            \cup SkipStrs("tags", s.tags) \cup SkipStr("xkey", s.xkey))
ClientInfo_ser(c) ==
    JObj({<<"host", JStr(c.host)>>, <<"id", JNum(c.id)>>, <<"user", JStr(c.user)>>,
          <<"name_tag", JStr(c.name_tag)>>, <<"kind", JStr(c.kind)>>,
          <<"type", JStr(c.client_type)>>, <<"nonce", JStr(c.nonce)>>}
            \cup NullStr("name", c.name) \cup NullStrs("tags", c.tags)
            \cup NullStr("mqtt", c.mqtt))
ConnectOpts_ser(c) ==
    JObj(NullStr("jwt", c.jwt) \cup NullStr("nkey", c.nkey) \cup NullStr("sig", c.sig)
            \cup NullStr("auth_token", c.auth_token) \cup NullStr("user", c.user)
            \cup NullStr("pass", c.pass) \cup NullStr("name", c.name)
            \cup NullStr("lang", c.lang) \cup NullStr("version", c.version)
            \cup {<<"protocol", JNum(c.protocol)>>})
ClientTLS_ser(t) ==
    JObj({<<"version", JStr(t.version)>>, <<"cipher", JStr(t.cipher)>>,
          <<"certs", JStrs(t.certs)>>,
          <<"verified_chains",
            JArr([i \in 1..Len(t.verified_chains) |-> JStrs(t.verified_chains[i])])>>})
AuthRequest_ser(r) ==
    {<<"server_id", ServerID_ser(r.server)>>, <<"user_nkey", JStr(r.user_nkey)>>,
     <<"client_info", ClientInfo_ser(r.client_info)>>,
     <<"connect_opts", ConnectOpts_ser(r.connect_opts)>>}
        \cup {<<"client_tls", ClientTLS_ser(t)>> : t \in r.client_tls}
        \cup SkipStr("request_nonce", r.request_nonce)
        \cup GenericFields_ser(r.generic_fields)

AuthResponse_ser(r) ==
    {<<"jwt", JStr(r.jwt)>>} \cup SkipEmpty("error", r.error)
        \cup SkipStr("issuer_account", r.issuer_account)
        \cup GenericFields_ser(r.generic_fields)

\* Serialize for T
nats_ser(T, p) ==
    JObj(CASE T = "Operator" -> Operator_ser(p)
           [] T = "Account" -> Account_ser(p)
           [] T = "User" -> User_ser(p)
           [] T = "Activation" -> Activation_ser(p)
           [] T = "AuthRequest" -> AuthRequest_ser(p)
           [] T = "AuthResponse" -> AuthResponse_ser(p))

\* Serialize for Claims<T>
Claims_ser(T, c) ==
    JObj(SkipStr("aud", c.aud) \cup SkipNum("exp", c.exp)
            \cup {<<"iat", JNum(c.iat)>>} \cup SkipStr("id", c.id)
            \cup {<<"iss", JStr(c.iss)>>, <<"jti", JStr(c.jti)>>}
            \cup SkipStr("name", c.name) \cup {<<"nats", nats_ser(T, c.nats)>>}
            \cup SkipNum("nbf", c.nbf) \cup SkipEmpty("sub", c.sub))

\* Serialize for ClaimsHeader
ClaimsHeader_ser(h) ==
    JObj({<<"typ", JStr(h.header_type)>>, <<"alg", JStr(h.algorithm)>>})

----------------------------------------------------------------------------
(* Deserialize, as serde derives it.  For a struct X and the contents o of  *)
(* a JSON object, X_ok(o) says that o reads as an X and X_de(o) is the X    *)
(* read.  A required field must be present with its type; an Option field   *)
(* that is missing or null reads as None; unknown keys are ignored.  A      *)
(* flattened Option<X> reads as Some(x) when the surrounding object reads   *)
(* as an X, and as None when it does not.                                   *)

ReqStr(o, k) == Has(o, k) /\ IsStr(o[k])
ReqNum(o, k) == Has(o, k) /\ IsNum(o[k])
\* u32 / u64
ReqNat(o, k) == Has(o, k) /\ IsNum(o[k]) /\ o[k][2] >= 0
ReqStrs(o, k) == Has(o, k) /\ IsStrs(o[k])
ReqObj(o, k) == Has(o, k) /\ IsObj(o[k])
OptStrOk(o, k) == Unset(o, k) \/ IsStr(o[k])
OptNumOk(o, k) == Unset(o, k) \/ IsNum(o[k])
OptBoolOk(o, k) == Unset(o, k) \/ IsBool(o[k])
OptStrsOk(o, k) == Unset(o, k) \/ IsStrs(o[k])

DeStrs(j) == [i \in 1..Len(j[2]) |-> j[2][i][2]]
DeOpt(o, k) == IF Unset(o, k) THEN None ELSE Some(o[k][2])
DeOptStrs(o, k) == IF Unset(o, k) THEN None ELSE Some(DeStrs(o[k]))

GenericFields_ok(o) ==
    /\ OptStrsOk(o, "tags")
    /\ ReqStr(o, "type") /\ o["type"][2] \in ClaimTypes
    /\ ReqNat(o, "version")
GenericFields_de(o) ==
    [tags |-> DeOptStrs(o, "tags"), claim_type |-> o["type"][2],
     version |-> o["version"][2]]

\* allow and deny are #[serde(default)]
Permission_ok(o) ==
    /\ Has(o, "allow") => IsStrs(o["allow"])
    /\ Has(o, "deny") => IsStrs(o["deny"])
Permission_de(o) ==
    [allow |-> IF Has(o, "allow") THEN DeStrs(o["allow"]) ELSE <<>>,
     deny |-> IF Has(o, "deny") THEN DeStrs(o["deny"]) ELSE <<>>]
\* ttl has skip_serializing_if and no default: it is required on read
ResponsePermission_ok(o) == ReqNum(o, "max") /\ ReqNat(o, "ttl")
ResponsePermission_de(o) == [max_messages |-> o["max"][2], ttl |-> o["ttl"][2]]
\* pub and sub are #[serde(default)]
Permissions_ok(o) ==
    /\ Has(o, "pub") => IsObj(o["pub"]) /\ Permission_ok(o["pub"][2])
    /\ Has(o, "sub") => IsObj(o["sub"]) /\ Permission_ok(o["sub"][2])
    /\ Unset(o, "resp") \/ (IsObj(o["resp"]) /\ ResponsePermission_ok(o["resp"][2]))
Permissions_de(o) ==
    [publish |-> IF Has(o, "pub") THEN Permission_de(o["pub"][2])
                 ELSE Permission_default,
     subscribe |-> IF Has(o, "sub") THEN Permission_de(o["sub"][2])
                   ELSE Permission_default,
     resp |-> IF Unset(o, "resp") THEN None
              ELSE Some(ResponsePermission_de(o["resp"][2]))]

NatsLimits_ok(o) ==
    OptNumOk(o, "subs") /\ OptNumOk(o, "data") /\ OptNumOk(o, "payload")
NatsLimits_de(o) ==
    [subs |-> DeOpt(o, "subs"), data |-> DeOpt(o, "data"),
     payload |-> DeOpt(o, "payload")]
TimeRange_ok(j) == IsObj(j) /\ ReqStr(j[2], "start") /\ ReqStr(j[2], "end")
UserLimits_ok(o) ==
    /\ ReqStrs(o, "src")
    /\ Has(o, "times") /\ o["times"][1] = "arr"
    /\ \A i \in 1..Len(o["times"][2]) : TimeRange_ok(o["times"][2][i])
    /\ ReqStr(o, "locale")
UserLimits_de(o) ==
    [src |-> DeStrs(o["src"]),
     times |-> [i \in 1..Len(o["times"][2]) |->
                  [start |-> o["times"][2][i][2]["start"][2],
                   end |-> o["times"][2][i][2]["end"][2]]],
     locale |-> o["locale"][2]]
\* both fields are flattened Options: a Limits is read from any object
Limits_de(o) ==
    [user_limits |-> IF UserLimits_ok(o) THEN Some(UserLimits_de(o)) ELSE None,
     nats_limits |-> IF NatsLimits_ok(o) THEN Some(NatsLimits_de(o)) ELSE None]
UserPermissionLimits_ok(o) ==
    /\ Permissions_ok(o)
    /\ OptBoolOk(o, "bearer_token")
    /\ OptStrsOk(o, "allowed_connection_types")
UserPermissionLimits_de(o) ==
    [permissions |-> Permissions_de(o), limits |-> Some(Limits_de(o)),
     bearer_token |-> DeOpt(o, "bearer_token"),
     allowed_connection_types |-> DeOptStrs(o, "allowed_connection_types")]

User_ok(o) ==
    OptStrOk(o, "issuer_account") /\ UserPermissionLimits_ok(o) /\ GenericFields_ok(o)
User_de(o) ==
    [issuer_account |-> DeOpt(o, "issuer_account"),
     permissions |-> UserPermissionLimits_de(o),
     generic_fields |-> GenericFields_de(o)]

Operator_ok(o) ==
    /\ OptStrsOk(o, "signing_keys") /\ OptStrOk(o, "account_server_url")
    /\ OptStrsOk(o, "operator_service_urls") /\ OptStrOk(o, "system_account")
    /\ OptStrOk(o, "assert_server_version")
    /\ OptBoolOk(o, "strict_signing_key_usage")
    /\ GenericFields_ok(o)
Operator_de(o) ==
    [signing_keys |-> DeOptStrs(o, "signing_keys"),
     account_server_url |-> DeOpt(o, "account_server_url"),
     operator_service_urls |-> DeOptStrs(o, "operator_service_urls"),
     system_account |-> DeOpt(o, "system_account"),
     assert_server_version |-> DeOpt(o, "assert_server_version"),
     strict_signing_key_usage |-> DeOpt(o, "strict_signing_key_usage"),
     generic_fields |-> GenericFields_de(o)]

\* import_subject and issuer_account have skip_serializing_if and no
\* default: they are required on read
Activation_ok(o) ==
    /\ ReqStr(o, "import_subject")
    /\ Unset(o, "import_type")
         \/ (IsStr(o["import_type"]) /\ o["import_type"][2] \in ExportTypes)
    /\ ReqStr(o, "issuer_account")
    /\ GenericFields_ok(o)
Activation_de(o) ==
    [import_subject |-> o["import_subject"][2],
     import_type |-> DeOpt(o, "import_type"),
     issuer_account |-> o["issuer_account"][2],
     generic_fields |-> GenericFields_de(o)]

AccountLimits_ok(o) ==
    /\ OptNumOk(o, "imports") /\ OptNumOk(o, "exports")
    /\ OptBoolOk(o, "wildcards") /\ OptBoolOk(o, "disallow_bearer")
    /\ OptNumOk(o, "conn") /\ OptNumOk(o, "leaf")
AccountLimits_de(o) ==
    [imports |-> DeOpt(o, "imports"), exports |-> DeOpt(o, "exports"),
     wildcard_exports |-> DeOpt(o, "wildcards"),
     disallow_bearer |-> DeOpt(o, "disallow_bearer"),
     conn |-> DeOpt(o, "conn"), leaf |-> DeOpt(o, "leaf")]
JetStreamLimits_ok(o) ==
    /\ OptNumOk(o, "mem_storage") /\ OptNumOk(o, "disk_storage")
    /\ OptNumOk(o, "streams") /\ OptNumOk(o, "consumer")
    /\ OptNumOk(o, "max_ack_pending") /\ OptNumOk(o, "mem_max_stream_bytes")
    /\ OptNumOk(o, "disk_max_stream_bytes") /\ OptBoolOk(o, "max_bytes_required")
JetStreamLimits_de(o) ==
    [memory_storage |-> DeOpt(o, "mem_storage"),
     disk_storage |-> DeOpt(o, "disk_storage"),
     streams |-> DeOpt(o, "streams"), consumer |-> DeOpt(o, "consumer"),
     max_ack_pending |-> DeOpt(o, "max_ack_pending"),
     mem_max_stream_bytes |-> DeOpt(o, "mem_max_stream_bytes"),
     disk_max_stream_bytes |-> DeOpt(o, "disk_max_stream_bytes"),
     max_bytes_required |-> DeOpt(o, "max_bytes_required")]
\* every field is a flattened Option; the map takes the keys that are no
\* field of the three structs, and is read when each of them holds an object
OperatorLimits_de(o) ==
    LET rest == DOMAIN o \ {"subs", "data", "payload", "imports", "exports",
                            "wildcards", "disallow_bearer", "conn", "leaf",
                            "mem_storage", "disk_storage", "streams", "consumer",
                            "max_ack_pending", "mem_max_stream_bytes",
                            "disk_max_stream_bytes", "max_bytes_required"}
    IN
    [nats |-> IF NatsLimits_ok(o) THEN Some(NatsLimits_de(o)) ELSE None,
     account |-> IF AccountLimits_ok(o) THEN Some(AccountLimits_de(o)) ELSE None,
     jetstream |-> IF JetStreamLimits_ok(o) THEN Some(JetStreamLimits_de(o))
                   ELSE None,
     tiered_limits |-> IF \A k \in rest : IsObj(o[k])
                       THEN Some({<<k, Limits_de(o[k][2])>> : k \in rest})
                       ELSE None]
Account_ok(o) ==
    /\ Unset(o, "limits") \/ IsObj(o["limits"])
    /\ Unset(o, "default_permissions")
         \/ (IsObj(o["default_permissions"])
               /\ Permissions_ok(o["default_permissions"][2]))
    /\ GenericFields_ok(o)
Account_de(o) ==
    [limits |-> IF Unset(o, "limits") THEN None
                ELSE Some(OperatorLimits_de(o["limits"][2])),
     default_permissions |->
        IF Unset(o, "default_permissions") THEN None
        ELSE Some(Permissions_de(o["default_permissions"][2])),
     generic_fields |-> GenericFields_de(o)]

ServerID_ok(o) ==
    /\ ReqStr(o, "name") /\ ReqStr(o, "host") /\ ReqStr(o, "id")
    /\ OptStrOk(o, "version") /\ OptStrOk(o, "cluster") /\ OptStrsOk(o, "tags")
    /\ OptStrOk(o, "xkey")
ServerID_de(o) ==
    [name |-> o["name"][2], host |-> o["host"][2], id |-> o["id"][2],
     version |-> DeOpt(o, "version"), cluster |-> DeOpt(o, "cluster"),
     tags |-> DeOptStrs(o, "tags"), xkey |-> DeOpt(o, "xkey")]
ClientInfo_ok(o) ==
    /\ ReqStr(o, "host") /\ ReqNat(o, "id") /\ ReqStr(o, "user")
    /\ OptStrOk(o, "name") /\ OptStrsOk(o, "tags") /\ ReqStr(o, "name_tag")
    /\ ReqStr(o, "kind") /\ ReqStr(o, "type") /\ OptStrOk(o, "mqtt")
    /\ ReqStr(o, "nonce")
ClientInfo_de(o) ==
    [host |-> o["host"][2], id |-> o["id"][2], user |-> o["user"][2],
     name |-> DeOpt(o, "name"), tags |-> DeOptStrs(o, "tags"),
     name_tag |-> o["name_tag"][2], kind |-> o["kind"][2],
     client_type |-> o["type"][2], mqtt |-> DeOpt(o, "mqtt"),
     nonce |-> o["nonce"][2]]
ConnectOpts_ok(o) ==
    /\ OptStrOk(o, "jwt") /\ OptStrOk(o, "nkey") /\ OptStrOk(o, "sig")
    /\ OptStrOk(o, "auth_token") /\ OptStrOk(o, "user") /\ OptStrOk(o, "pass")
    /\ OptStrOk(o, "name") /\ OptStrOk(o, "lang") /\ OptStrOk(o, "version")
    /\ ReqNat(o, "protocol")
ConnectOpts_de(o) ==
    [jwt |-> DeOpt(o, "jwt"), nkey |-> DeOpt(o, "nkey"), sig |-> DeOpt(o, "sig"),
     auth_token |-> DeOpt(o, "auth_token"), user |-> DeOpt(o, "user"),
     pass |-> DeOpt(o, "pass"), name |-> DeOpt(o, "name"),
     lang |-> DeOpt(o, "lang"), version |-> DeOpt(o, "version"),
     protocol |-> o["protocol"][2]]
ClientTLS_ok(o) ==
    /\ ReqStr(o, "version") /\ ReqStr(o, "cipher") /\ ReqStrs(o, "certs")
    /\ Has(o, "verified_chains") /\ o["verified_chains"][1] = "arr"
    /\ \A i \in 1..Len(o["verified_chains"][2]) : IsStrs(o["verified_chains"][2][i])
ClientTLS_de(o) ==
    [version |-> o["version"][2], cipher |-> o["cipher"][2],
     certs |-> DeStrs(o["certs"]),
     verified_chains |-> [i \in 1..Len(o["verified_chains"][2]) |->
                            DeStrs(o["verified_chains"][2][i])]]
AuthRequest_ok(o) ==
    /\ ReqObj(o, "server_id") /\ ServerID_ok(o["server_id"][2])
    /\ ReqStr(o, "user_nkey")
    /\ ReqObj(o, "client_info") /\ ClientInfo_ok(o["client_info"][2])
    /\ ReqObj(o, "connect_opts") /\ ConnectOpts_ok(o["connect_opts"][2])
    /\ Unset(o, "client_tls")
         \/ (IsObj(o["client_tls"]) /\ ClientTLS_ok(o["client_tls"][2]))
    /\ OptStrOk(o, "request_nonce")
    /\ GenericFields_ok(o)
AuthRequest_de(o) ==
    [server |-> ServerID_de(o["server_id"][2]), user_nkey |-> o["user_nkey"][2],
     client_info |-> ClientInfo_de(o["client_info"][2]),
     connect_opts |-> ConnectOpts_de(o["connect_opts"][2]),
     client_tls |-> IF Unset(o, "client_tls") THEN None
                    ELSE Some(ClientTLS_de(o["client_tls"][2])),
     request_nonce |-> DeOpt(o, "request_nonce"),
     generic_fields |-> GenericFields_de(o)]

\* error has skip_serializing_if and no default: it is required on read
AuthResponse_ok(o) ==
    /\ ReqStr(o, "jwt") /\ ReqStr(o, "error") /\ OptStrOk(o, "issuer_account")
    /\ GenericFields_ok(o)
AuthResponse_de(o) ==
    [jwt |-> o["jwt"][2], error |-> o["error"][2],
     issuer_account |-> DeOpt(o, "issuer_account"),
     generic_fields |-> GenericFields_de(o)]

nats_ok(T, o) ==
    CASE T = "Operator" -> Operator_ok(o)
      [] T = "Account" -> Account_ok(o)
      [] T = "User" -> User_ok(o)
      [] T = "Activation" -> Activation_ok(o)
      [] T = "AuthRequest" -> AuthRequest_ok(o)
      [] T = "AuthResponse" -> AuthResponse_ok(o)
nats_de(T, o) ==
    CASE T = "Operator" -> Operator_de(o)
      [] T = "Account" -> Account_de(o)
      [] T = "User" -> User_de(o)
      [] T = "Activation" -> Activation_de(o)
      [] T = "AuthRequest" -> AuthRequest_de(o)
      [] T = "AuthResponse" -> AuthResponse_de(o)

\* Deserialize for Claims<T>: sub has skip_serializing_if and no default, so
\* it is required on read
Claims_ok(T, o) ==
    /\ OptStrOk(o, "aud") /\ OptNumOk(o, "exp") /\ ReqNat(o, "iat")
    /\ OptStrOk(o, "id") /\ ReqStr(o, "iss") /\ ReqStr(o, "jti")
    /\ OptStrOk(o, "name")
    /\ ReqObj(o, "nats") /\ nats_ok(T, o["nats"][2])
    /\ OptNumOk(o, "nbf") /\ ReqStr(o, "sub")
Claims_de(T, o) ==
    [aud |-> DeOpt(o, "aud"), exp |-> DeOpt(o, "exp"), iat |-> o["iat"][2],
     id |-> DeOpt(o, "id"), iss |-> o["iss"][2], jti |-> o["jti"][2],
     name |-> DeOpt(o, "name"), nats |-> nats_de(T, o["nats"][2]),
     nbf |-> DeOpt(o, "nbf"), sub |-> o["sub"][2]]

\* Deserialize for ClaimsHeader
ClaimsHeader_ok(o) == ReqStr(o, "typ") /\ ReqStr(o, "alg")
ClaimsHeader_de(o) == [header_type |-> o["typ"][2], algorithm |-> o["alg"][2]]

----------------------------------------------------------------------------
(* The segment codec and the claims codec (lib.rs).  A Result is a record:  *)
(* err is "" for Ok and otherwise names the place that failed, val is the   *)
(* value as an Option.                                                      *)

Ok(v) == [err |-> "", val |-> Some(v)]
Err(e) == [err |-> e, val |-> None]

encode_jwt_segment(j) == b64_encode(to_string(j))

\* decode_claims::<D>, D being "ClaimsHeader" or the T of a Claims<T>
decode_claims(D, input) ==
    LET decoded == b64_decode(input) IN
    IF ~decoded[1] THEN Err("base64")
    ELSE LET j == from_slice(decoded[2]) IN
         IF ~j[1] \/ ~IsObj(j[2]) THEN Err("json")
         ELSE IF D = "ClaimsHeader"
              THEN IF ClaimsHeader_ok(j[2][2]) THEN Ok(ClaimsHeader_de(j[2][2]))
                   ELSE Err("json")
              ELSE IF Claims_ok(D, j[2][2]) THEN Ok(Claims_de(D, j[2][2]))
                   ELSE Err("json")

ClaimsHeader_from_str_unchecked(header) == decode_claims("ClaimsHeader", header)

\* ClaimsHeader::from_str
ClaimsHeader_from_str(header) ==
    LET h == decode_claims("ClaimsHeader", header) IN
    IF h.err # "" THEN h
    ELSE IF The(h.val).header_type # HEADER_TYPE THEN Err("unsupported type")
    ELSE IF The(h.val).algorithm # HEADER_ALGORITHM THEN Err("unsupported algorithm")
    ELSE h

signed_text_reserialized(parts) ==
    LET again(seg) == IF seg[1] = "b64" /\ seg[2][1] = "json"
                      THEN encode_jwt_segment(seg[2][2]) ELSE seg
    IN  <<again(parts[1]), again(parts[2])>>

\* token[0..token.len() - signature.len() - 1]: the text of the first two
\* segments and the '.' between them, as transmitted
signed_text(parts) == <<parts[1], parts[2]>>

verified_unchecked(pub, parts, sigbytes) == TRUE

\* a verification that, unlike the code's, also refuses a payload whose exp
\* lies before the clock or whose nbf lies after it
verified_in_time(pub, parts, sigbytes) ==
    LET o == parts[2][2][2][2] IN
    /\ verify(pub, signed_text(parts), sigbytes)
    /\ ("exp" \in DOMAIN o /\ IsNum(o["exp"])) => o["exp"][2] >= now
    /\ ("nbf" \in DOMAIN o /\ IsNum(o["nbf"])) => o["nbf"][2] <= now

\* kp.verify(token[..].as_bytes(), &decoded_sig)?
verified(pub, parts, sigbytes) == verify(pub, signed_text(parts), sigbytes)

wrong_parts_below(parts) == Len(parts) < 3

\* parts.len() != 3
wrong_parts(parts) == Len(parts) # 3

\* Claims::<T>::decode.  steps lists the stages entered, in order.
Claims_decode(T, parts) ==
    LET header == ClaimsHeader_from_str(parts[1])
        payload == decode_claims(T, parts[2])
        decoded_sig == b64_decode(parts[3])
        kp == from_public_key(The(payload.val).iss)
        S(r, st) == [err |-> r.err, val |-> r.val, steps |-> st]
    IN  IF wrong_parts(parts) THEN S(Err("Invalid JWT"), <<"split">>)
        ELSE IF header.err # "" THEN S(Err(header.err), <<"split", "header">>)
        ELSE IF payload.err # ""
        THEN S(Err(payload.err), <<"split", "header", "payload">>)
        ELSE IF ~decoded_sig[1]
        THEN S(Err("base64"), <<"split", "header", "payload", "signature">>)
        ELSE IF ~kp[1]
        THEN S(Err("public key"),
               <<"split", "header", "payload", "signature", "key">>)
        ELSE IF ~verified(kp[2], parts, decoded_sig[2])
        THEN S(Err("verify"),
               <<"split", "header", "payload", "signature", "key", "verify">>)
        ELSE S(payload, <<"split", "header", "payload", "signature", "key", "verify">>)

stamped_keeping_iss(payload, key, t) ==
    [payload EXCEPT !.iat = t,
                    !.iss = IF payload.iss = "" THEN public_key(key) ELSE payload.iss,
                    !.jti = ""]

stamped_keeping_jti(payload, key, t) ==
    [payload EXCEPT !.iat = t, !.iss = public_key(key)]

\* c.iat = now; c.iss = key.public_key(); c.jti = ""
stamped(payload, key, t) ==
    [payload EXCEPT !.iat = t, !.iss = public_key(key), !.jti = ""]

\* Jwt::encode, at clock value t
Jwt_encode(T, jwt, key, t) ==
    LET hdr == encode_jwt_segment(ClaimsHeader_ser(jwt.header))
        c0 == stamped(jwt.payload, key, t)
        encoded_claim == to_string(Claims_ser(T, c0))
        jti == digest_base32(encoded_claim)
        c == [c0 EXCEPT !.jti = jti]
        claims == encode_jwt_segment(Claims_ser(T, c))
        intermediate == <<hdr, claims>>
        sig == sign(key, intermediate)
    IN  IF ~sig[1] THEN Err("sign")
        ELSE Ok(<<hdr, claims, b64_encode(sig[2])>>)

\* Claims::<T>::encode
Claims_encode(T, self, key_pair, t) ==
    Jwt_encode(T,
               [header |-> [header_type |-> HEADER_TYPE,
                            algorithm |-> HEADER_ALGORITHM],
                payload |-> self, signature |-> ""],
               key_pair, t)

\* The error kinds of the design, by the place that fails.
ErrorKind(e) ==
    CASE e \in {"Invalid JWT", "base64", "json"} -> "FormatError"
      [] e \in {"unsupported type", "unsupported algorithm"} -> "UnsupportedHeaderError"
      [] e \in {"public key", "verify"} -> "SignatureInvalidError"
      [] e = "sign" -> "SigningError"
      [] e = "not enough data in the claim to hash" -> "MissingDataError"
      [] OTHER -> "none"

----------------------------------------------------------------------------
(* The activation hash (activation.rs). *)

\* The tokens a subject is made of here, and the subjects of at most
\* MaxTokens tokens.  A subject text is the dot-join of its tokens.
Toks == {"", "foo", "bar", "f*", "*", ">"}
Subjects == UNION {[1..n -> Toks] : n \in 1..MaxTokens}

RECURSIVE join(_)
\* [..].join(".")
join(s) ==
    IF Len(s) = 0 THEN ""
    ELSE IF Len(s) = 1 THEN s[1]
    ELSE s[1] \o "." \o join(Tail(s))

SplitTable == {<<join(t), t>> : t \in Subjects}
SubjectTexts == {p[1] : p \in SplitTable}
\* subject.split('.'), for the subject texts above
split(subject) == (CHOOSE p \in SplitTable : p[1] = subject)[2]

\* Activation::clean_subject
clean_subject(subject) ==
    LET sp == split(subject)
        wild == {i \in 1..Len(sp) : sp[i] = "*" \/ sp[i] = ">"}
        first == CHOOSE i \in wild : \A j \in wild : i <= j
        cleaned == IF wild = {} THEN ""
                   ELSE IF first = 1 THEN "_"
                   ELSE join(SubSeq(sp, 1, first - 1))
    IN  IF cleaned = "" THEN subject ELSE cleaned

missing_data_all(claims) ==
    claims.iss = "" /\ claims.sub = "" /\ claims.nats.import_subject = ""

\* claims.iss.is_empty() || claims.sub.is_empty()
\*     || claims.nats.import_subject.is_empty()
missing_data(claims) ==
    claims.iss = "" \/ claims.sub = "" \/ claims.nats.import_subject = ""

Activation_hash_raw(claims) ==
    IF missing_data(claims)
    THEN [err |-> "not enough data in the claim to hash", val |-> None,
          steps |-> <<"check">>]
    ELSE [err |-> "",
          val |-> Some(digest_base32(claims.iss \o claims.sub
                                     \o claims.nats.import_subject)),
          steps |-> <<"check", "clean", "digest">>]

\* Activation::hash.  steps lists the stages entered, in order.
Activation_hash(claims) ==
    IF missing_data(claims)
    THEN [err |-> "not enough data in the claim to hash", val |-> None,
          steps |-> <<"check">>]
    ELSE LET subj == clean_subject(claims.nats.import_subject)
             base == claims.iss \o claims.sub \o subj
         IN  [err |-> "", val |-> Some(digest_base32(base)),
              steps |-> <<"check", "clean", "digest">>]

----------------------------------------------------------------------------
(* What a caller does with a Claims<T>: build it, assign its public fields. *)

Names == {"n"}
Nkeys == {"", "U1"}

\* An AuthRequest written as a struct literal (every field is public).
AuthRequest_literal ==
    [AuthRequest_new EXCEPT
        !.server = [ServerID_default EXCEPT !.name = "srv", !.host = "0.0.0.0",
                                            !.id = "N1"],
        !.user_nkey = "U1",
        !.client_info = [ClientInfo_default EXCEPT !.host = "127.0.0.1", !.id = 21,
                            !.user = "U1", !.kind = "Client", !.client_type = "nats"],
        !.connect_opts = [ConnectOpts_default EXCEPT !.protocol = 1],
        !.generic_fields = [GenericFields_default EXCEPT
                               !.claim_type = "authorization_request"]]

EnvelopeFields ==
    {"aud", "exp", "nbf", "id", "iss", "iat", "jti", "sub", "name", "tags"}
Fields(T) ==
    EnvelopeFields \cup
    CASE T = "Operator" -> {"signing_keys", "system_account",
                            "strict_signing_key_usage"}
      [] T = "Account" -> {"limits", "jetstream", "default_permissions"}
      [] T = "User" -> {"issuer_account", "limits", "nats_limits", "bearer_token",
                        "resp", "allow"}
      [] T = "Activation" -> {"import_subject", "import_type", "issuer_account"}
      [] T = "AuthRequest" -> {"request_nonce", "client_tls", "client_name"}
      [] T = "AuthResponse" -> {"jwt", "error", "issuer_account"}

\* claims.f = v, one assignment for each field f above
assign(T, c, f) ==
    CASE f = "aud" -> [c EXCEPT !.aud = Some("a1")]
      [] f = "exp" -> [c EXCEPT !.exp = Some(5)]
      [] f = "nbf" -> [c EXCEPT !.nbf = Some(3)]
      [] f = "id" -> [c EXCEPT !.id = Some("id1")]
      [] f = "iss" -> [c EXCEPT !.iss = "K2"]
      [] f = "iat" -> [c EXCEPT !.iat = 9]
      [] f = "jti" -> [c EXCEPT !.jti = "J1"]
      [] f = "sub" -> [c EXCEPT !.sub = ""]
      [] f = "name" -> [c EXCEPT !.name = None]
      [] f = "tags" -> [c EXCEPT !.nats.generic_fields.tags = Some(<<"t1">>)]
      [] f = "signing_keys" -> [c EXCEPT !.nats.signing_keys = Some(<<"K3">>)]
      [] f = "system_account" -> [c EXCEPT !.nats.system_account = Some("A1")]
      [] f = "strict_signing_key_usage" ->
            [c EXCEPT !.nats.strict_signing_key_usage = Some(TRUE)]
      [] f = "limits" /\ T = "Account" -> [c EXCEPT !.nats.limits = None]
      [] f = "jetstream" ->
            [c EXCEPT !.nats.limits =
                Some([OperatorLimits_default EXCEPT
                        !.jetstream = Some([JetStreamLimits_default EXCEPT
                                               !.streams = Some(NO_LIMIT)])])]
      [] f = "default_permissions" -> [c EXCEPT !.nats.default_permissions = None]
      [] f = "issuer_account" /\ T = "Activation" ->
            [c EXCEPT !.nats.issuer_account = "A1"]
      [] f = "issuer_account" /\ T # "Activation" ->
            [c EXCEPT !.nats.issuer_account = Some("A1")]
      [] f = "limits" /\ T = "User" ->
            [c EXCEPT !.nats.permissions.limits =
                Some([user_limits |-> None, nats_limits |-> None])]
      [] f = "nats_limits" ->
            [c EXCEPT !.nats.permissions.limits =
                Some([user_limits |-> None, nats_limits |-> Some(NatsLimits_default)])]
      [] f = "bearer_token" -> [c EXCEPT !.nats.permissions.bearer_token = Some(TRUE)]
      [] f = "resp" ->
            [c EXCEPT !.nats.permissions.permissions.resp =
                Some([max_messages |-> 1, ttl |-> 0])]
      [] f = "allow" ->
            [c EXCEPT !.nats.permissions.permissions.publish.allow = <<"foo.>">>]
      [] f = "import_subject" -> [c EXCEPT !.nats.import_subject = "foo.*"]
      [] f = "import_type" -> [c EXCEPT !.nats.import_type = Some("stream")]
      [] f = "request_nonce" -> [c EXCEPT !.nats.request_nonce = Some("n1")]
      [] f = "client_tls" -> [c EXCEPT !.nats.client_tls = Some(ClientTLS_default)]
      [] f = "client_name" -> [c EXCEPT !.nats.client_info.name = Some("cli")]
      [] f = "jwt" -> [c EXCEPT !.nats.jwt = "tok"]
      [] f = "error" -> [c EXCEPT !.nats.error = "denied"]

----------------------------------------------------------------------------
(* What is done to a token text between encode and decode. *)

HeaderEdits == {"keep", "typ", "alg", "rsa", "form", "junk", "bad"}
PayloadEdits == {"keep", "sub", "iss", "issbad", "form", "junk", "bad"}
SigEdits == {"keep", "K1", "K2", "junk", "bad"}
CountEdits == {"drop", "add", "one", "dot"}
\* The edits that change one byte of the segment text and nothing else: one
\* base64 character replaced by another (which changes one byte of the JSON
\* text), or by a character outside the alphabet.
ByteEdits == {"typ", "alg", "sub", "iss", "issbad", "junk", "bad"}

HeaderSeg(typ, alg) ==
    encode_jwt_segment(ClaimsHeader_ser([header_type |-> typ, algorithm |-> alg]))

HEdit(h, e) ==
    CASE e = "keep" -> h
      [] e = "typ" -> HeaderSeg("JST", HEADER_ALGORITHM)
      [] e = "alg" -> HeaderSeg(HEADER_TYPE, "ed25519-nkay")
      [] e = "rsa" -> HeaderSeg(HEADER_TYPE, "rsa")
      [] e = "form" -> b64_encode(<<"json", h[2][2], 1>>)
      [] e = "junk" -> b64_encode(<<"junk", 0>>)
      [] e = "bad" -> <<"bad", 0>>

\* the object o with key k set to v
WithKey(o, k, v) == [x \in DOMAIN o \cup {k} |-> IF x = k THEN v ELSE o[x]]

PEdit(p, e) ==
    LET o == p[2][2][2] IN
    CASE e = "keep" -> p
      [] e = "sub" -> encode_jwt_segment(<<"obj", WithKey(o, "sub", JStr("U9"))>>)
      [] e = "iss" ->
            encode_jwt_segment(
                <<"obj", WithKey(o, "iss",
                                 JStr(IF o["iss"][2] = "K1" THEN "K2" ELSE "K1"))>>)
      [] e = "issbad" -> encode_jwt_segment(<<"obj", WithKey(o, "iss", JStr("X1"))>>)
      [] e = "form" -> b64_encode(<<"json", p[2][2], 1>>)
      [] e = "junk" -> b64_encode(<<"junk", 0>>)
      [] e = "bad" -> <<"bad", 0>>

\* K1, K2: a signature made with that seed over the first two segments as
\* they now are
SEdit(s, e, h, p) ==
    CASE e = "keep" -> s
      [] e \in {"K1", "K2"} ->
            b64_encode(sign([pub |-> e, seed |-> TRUE], <<h, p>>)[2])
      [] e = "junk" -> b64_encode(<<"junk", 1>>)
      [] e = "bad" -> <<"bad", 1>>

\* dot: one byte of the header segment replaced by '.'
CEdit(t, e) ==
    CASE e = "drop" -> <<t[1], t[2]>>
      [] e = "add" -> <<t[1], t[2], t[3], t[3]>>
      [] e = "one" -> <<t[1]>>
      [] e = "dot" -> <<b64_encode(<<"junk", 2>>), b64_encode(<<"junk", 3>>),
                        t[2], t[3]>>

----------------------------------------------------------------------------
(* The state machine. *)

NoKey == [pub |-> "", seed |-> FALSE]
NoEnc == [err |-> "none", val |-> None]
NoEdit == [h |-> "keep", p |-> "keep", s |-> "keep", n |-> "keep"]
NoRes == [err |-> "none", val |-> None, steps |-> <<>>]
NoHist == [added |-> {}, errors |-> {}, last |-> <<"new">>, dup |-> FALSE,
           before |-> <<FALSE, FALSE>>]
\* ValidationResults::new, and no conversion under study
Elsewhere ==
    /\ issues = {} /\ hist = NoHist /\ answer = None
    /\ convIn = <<>> /\ convOut = None

\* a Claims<T> is at hand and nothing was done with it
Fresh(T, c, n) ==
    /\ ty' = T /\ env' = c /\ nset' = n
    /\ signer' = NoKey /\ encAt' = 0 /\ encoded' = NoEnc
    /\ token' = <<>> /\ edit' = NoEdit /\ res' = NoRes

\* What the constructors give: <<T, Claims<T>>>
Constructed ==
    {<<T, new_claims(T, name, nkey)>> :
        T \in {"Operator", "Account", "User", "Activation"},
        name \in Names, nkey \in Nkeys}
    \cup {<<"AuthResponse", generic_claim(nkey)>> : nkey \in Nkeys}
    \cup {<<"AuthRequest", [Claims_new(AuthRequest_literal) EXCEPT !.sub = nkey]>> :
            nkey \in Nkeys}

Init ==
    /\ now = 1
    /\ \E tc \in Constructed : ty = tc[1] /\ env = tc[2]
    /\ nset = 0 /\ signer = NoKey /\ encAt = 0 /\ encoded = NoEnc
    /\ token = <<>> /\ edit = NoEdit /\ res = NoRes
    /\ cleanArg = "" /\ cleanRes = None /\ hashRes = NoRes
    /\ Elsewhere

Tick ==
    /\ now < MaxClock
    /\ now' = now + 1
    /\ UNCHANGED <<ty, env, nset, signer, encAt, encoded, token, edit, res,
                   cleanArg, cleanRes, hashRes>>
    /\ UNCHANGED <<valVars, callVars>>

NewClaims(T, name, nkey) ==
    /\ Fresh(T, new_claims(T, name, nkey), 0)
    /\ UNCHANGED <<now, cleanArg, cleanRes, hashRes>>
    /\ UNCHANGED <<valVars, callVars>>

GenericClaim(nkey) ==
    /\ Fresh("AuthResponse", generic_claim(nkey), 0)
    /\ UNCHANGED <<now, cleanArg, cleanRes, hashRes>>
    /\ UNCHANGED <<valVars, callVars>>

NewAuthRequest(nkey) ==
    /\ Fresh("AuthRequest", [Claims_new(AuthRequest_literal) EXCEPT !.sub = nkey], 0)
    /\ UNCHANGED <<now, cleanArg, cleanRes, hashRes>>
    /\ UNCHANGED <<valVars, callVars>>

SetField(f) ==
    /\ nset < MaxSet
    /\ f \in Fields(ty)
    /\ Fresh(ty, assign(ty, env, f), nset + 1)
    /\ UNCHANGED <<now, cleanArg, cleanRes, hashRes>>
    /\ UNCHANGED <<valVars, callVars>>

Encode(kp) ==
    /\ encoded' = Claims_encode(ty, env, kp, now)
    /\ token' = IF encoded'.err = "" THEN The(encoded'.val) ELSE <<>>
    /\ signer' = kp /\ encAt' = now
    /\ edit' = NoEdit /\ res' = NoRes
    /\ UNCHANGED <<now, ty, env, nset, cleanArg, cleanRes, hashRes>>
    /\ UNCHANGED <<valVars, callVars>>

Tamper(he, pe, se) ==
    /\ encoded.err = "" /\ edit = NoEdit
    /\ <<he, pe, se>> # <<"keep", "keep", "keep">>
    /\ LET t == The(encoded.val)
           h == HEdit(t[1], he)
           p == PEdit(t[2], pe)
       IN  token' = <<h, p, SEdit(t[3], se, h, p)>>
    /\ edit' = [h |-> he, p |-> pe, s |-> se, n |-> "keep"]
    /\ res' = NoRes
    /\ UNCHANGED <<now, ty, env, nset, signer, encAt, encoded,
                   cleanArg, cleanRes, hashRes>>
    /\ UNCHANGED <<valVars, callVars>>

TamperCount(he, ne) ==
    /\ encoded.err = "" /\ edit = NoEdit
    /\ ne = "dot" => he = "keep"
    /\ LET t == The(encoded.val)
       IN  token' = CEdit(<<HEdit(t[1], he), t[2], t[3]>>, ne)
    /\ edit' = [h |-> he, p |-> "keep", s |-> "keep", n |-> ne]
    /\ res' = NoRes
    /\ UNCHANGED <<now, ty, env, nset, signer, encAt, encoded,
                   cleanArg, cleanRes, hashRes>>
    /\ UNCHANGED <<valVars, callVars>>

Decode ==
    /\ token # <<>>
    /\ res' = Claims_decode(ty, token)
    /\ UNCHANGED <<now, ty, env, nset, signer, encAt, encoded, token, edit,
                   cleanArg, cleanRes, hashRes>>
    /\ UNCHANGED <<valVars, callVars>>

Next ==
    \/ Tick
    \/ \E T \in {"Operator", "Account", "User", "Activation"},
          name \in Names, nkey \in Nkeys : NewClaims(T, name, nkey)
    \/ \E nkey \in Nkeys : GenericClaim(nkey)
    \/ \E nkey \in Nkeys : NewAuthRequest(nkey)
    \/ \E f \in Fields(ty) : SetField(f)
    \/ \E kp \in KeyPairs : Encode(kp)
    \/ Decode

Spec == Init /\ [][Next]_vars

NextDecode ==
    \/ Tick
    \/ \E T \in {"Operator", "Account", "User", "Activation"},
          name \in Names, nkey \in Nkeys : NewClaims(T, name, nkey)
    \/ \E nkey \in Nkeys : GenericClaim(nkey)
    \/ \E nkey \in Nkeys : NewAuthRequest(nkey)
    \/ \E kp \in KeyPairs : Encode(kp)
    \/ \E he \in HeaderEdits, pe \in PayloadEdits, se \in SigEdits :
          Tamper(he, pe, se)
    \/ \E he \in HeaderEdits, ne \in CountEdits : TamperCount(he, ne)
    \/ Decode

SpecDecode == Init /\ [][NextDecode]_vars

----------------------------------------------------------------------------
(* clean_subject and Activation::hash, applied to inputs drawn at the start. *)

InitClean ==
    /\ now = 1 /\ ty = "Activation"
    /\ env = new_claims("Activation", "n", "U1")
    /\ nset = 0 /\ signer = NoKey /\ encAt = 0 /\ encoded = NoEnc
    /\ token = <<>> /\ edit = NoEdit /\ res = NoRes
    /\ cleanArg \in SubjectTexts /\ cleanRes = None /\ hashRes = NoRes
    /\ Elsewhere

CleanSubject ==
    /\ cleanRes = None
    /\ cleanRes' = Some(clean_subject(cleanArg))
    /\ UNCHANGED <<now, ty, env, nset, signer, encAt, encoded, token, edit, res,
                   cleanArg, hashRes>>
    /\ UNCHANGED <<valVars, callVars>>

SpecClean == InitClean /\ [][CleanSubject]_vars

\* The import subjects hashed here
HashSubjects ==
    {"", "foo", "foo.bar", "foo.*", "foo.>", "foo.*.bar", "foo.bar.*", "*", ">",
     "*.foo", "f*.>", ".*"}
\* The Claims<Activation> hashed here: what new_claims gives, with iss and the
\* import subject assigned, and either nothing else or every other field
ActivationClaims ==
    {[c EXCEPT !.iss = i, !.nats.import_subject = s] :
        i \in {"", "K1", "K2"}, s \in HashSubjects,
        c \in {new_claims("Activation", "n", nkey) : nkey \in {"", "U1", "U2"}}
              \cup {[new_claims("Activation", "n", nkey) EXCEPT
                        !.name = None, !.jti = "J1", !.iat = 9, !.exp = Some(5),
                        !.nats.import_type = Some("service"),
                        !.nats.issuer_account = "A1",
                        !.nats.generic_fields.tags = Some(<<"t1">>)] :
                      nkey \in {"", "U1", "U2"}}}

InitHash ==
    /\ now = 1 /\ ty = "Activation"
    /\ env \in ActivationClaims
    /\ nset = 0 /\ signer = NoKey /\ encAt = 0 /\ encoded = NoEnc
    /\ token = <<>> /\ edit = NoEdit /\ res = NoRes
    /\ cleanArg = "" /\ cleanRes = None /\ hashRes = NoRes
    /\ Elsewhere

Hash ==
    /\ hashRes = NoRes
    /\ hashRes' = Activation_hash(env)
    /\ UNCHANGED <<now, ty, env, nset, signer, encAt, encoded, token, edit, res,
                   cleanArg, cleanRes>>
    /\ UNCHANGED <<valVars, callVars>>

SpecHash == InitHash /\ [][Hash]_vars

----------------------------------------------------------------------------
(* Construction alone: the constructors, T::default() and field assignments. *)

\* the payload types with a Default
Defaultable == {"Operator", "Account", "User", "Activation", "AuthRequest"}

\* T::default()
payload_default(T) ==
    CASE T = "Operator" -> Operator_default
      [] T = "Account" -> Account_default
      [] T = "User" -> User_default
      [] T = "Activation" -> Activation_default
      [] T = "AuthRequest" -> AuthRequest_new

\* an envelope with nothing set around T::default()
NewDefault(T) ==
    /\ Fresh(T, Claims_new(payload_default(T)), 0)
    /\ UNCHANGED <<now, cleanArg, cleanRes, hashRes>>
    /\ UNCHANGED <<valVars, callVars>>

NextConstruct ==
    \/ \E T \in {"Operator", "Account", "User", "Activation"},
          name \in Names, nkey \in Nkeys : NewClaims(T, name, nkey)
    \/ \E nkey \in Nkeys : GenericClaim(nkey)
    \/ \E T \in Defaultable : NewDefault(T)
    \/ \E f \in Fields(ty) : SetField(f)

SpecConstruct == Init /\ [][NextConstruct]_vars

----------------------------------------------------------------------------
(* SigningKey and its wire form KeyOrScope (types.rs). *)

\* Serialize for UserScope; ScopeType::UserScope is written "user_scope"
UserScope_ser(u) ==
    JObj({<<"kind", JStr(u.kind)>>, <<"key", JStr(u.key)>>}
            \cup SkipStr("role", u.role)
            \cup {<<"template", JObj(UserPermissionLimits_ser(t))>> : t \in u.template}
            \cup SkipStr("description", u.description))
\* Deserialize for UserScope: role, template and description are
\* #[serde(default)]
UserScope_ok(o) ==
    /\ ReqStr(o, "kind") /\ o["kind"][2] = "user_scope"
    /\ ReqStr(o, "key")
    /\ OptStrOk(o, "role")
    /\ Unset(o, "template")
         \/ (IsObj(o["template"]) /\ UserPermissionLimits_ok(o["template"][2]))
    /\ OptStrOk(o, "description")
UserScope_de(o) ==
    [kind |-> o["kind"][2], key |-> o["key"][2], role |-> DeOpt(o, "role"),
     template |-> IF Unset(o, "template") THEN None
                  ELSE Some(UserPermissionLimits_de(o["template"][2])),
     description |-> DeOpt(o, "description")]

\* impl From<SigningKey> for KeyOrScope
KeyOrScope_from(sk) ==
    IF sk.scope # None THEN <<"Scope", The(sk.scope)>> ELSE <<"Key", sk.key>>

\* impl From<KeyOrScope> for SigningKey
SigningKey_from(kos) ==
    IF kos[1] = "Key" THEN [key |-> kos[2], scope |-> None]
    ELSE [key |-> kos[2].key, scope |-> Some(kos[2])]

\* Serialize for SigningKey: into KeyOrScope, which is untagged
SigningKey_ser(sk) ==
    LET kos == KeyOrScope_from(sk)
    IN  IF kos[1] = "Key" THEN JStr(kos[2]) ELSE UserScope_ser(kos[2])

\* Deserialize for SigningKey: the first variant of KeyOrScope that the value
\* fits, then from KeyOrScope
SigningKey_de(j) ==
    IF IsStr(j) THEN Ok(SigningKey_from(<<"Key", j[2]>>))
    ELSE IF IsObj(j) /\ UserScope_ok(j[2])
    THEN Ok(SigningKey_from(<<"Scope", UserScope_de(j[2])>>))
    ELSE Err("json")

\* UserScope values, and the SigningKey values and JSON values tried
UserScopes ==
    [kind : {"user_scope"}, key : {"A1", "A2"}, role : {None, Some("r1")},
     template : {None, Some(UserPermissionLimits_default),
                 Some([UserPermissionLimits_default EXCEPT
                          !.bearer_token = Some(TRUE),
                          !.limits = Some([user_limits |-> None,
                                           nats_limits |-> Some(NatsLimits_default)])])},
     description : {None, Some("d1")}]
SigningKeys ==
    [key : {"A1", "A2"}, scope : {None} \cup {Some(u) : u \in UserScopes}]
SigningKeyTexts ==
    {JStr("A1"), JStr(""), JNum(1), JNull, JStrs(<<"A1">>),
     JObj({<<"key", JStr("A1")>>}),
     JObj({<<"kind", JStr("user_scope")>>, <<"key", JStr("A1")>>}),
     JObj({<<"kind", JStr("user_scope")>>, <<"key", JStr("A1")>>,
           <<"role", JNull>>}),
     JObj({<<"kind", JStr("other")>>, <<"key", JStr("A1")>>}),
     JObj({<<"kind", JStr("user_scope")>>, <<"key", JNum(1)>>}),
     JObj({<<"kind", JStr("user_scope")>>, <<"key", JStr("A1")>>,
           <<"template", JStr("t")>>})}

InitSigningKey ==
    /\ now = 1 /\ ty = "Account"
    /\ env = new_claims("Account", "n", "U1")
    /\ nset = 0 /\ signer = NoKey /\ encAt = 0 /\ encoded = NoEnc
    /\ token = <<>> /\ edit = NoEdit /\ res = NoRes
    /\ cleanArg = "" /\ cleanRes = None /\ hashRes = NoRes
    /\ issues = {} /\ hist = NoHist /\ answer = None
    /\ convIn \in {<<"SigningKey", sk>> : sk \in SigningKeys}
                    \cup {<<"json", j>> : j \in SigningKeyTexts}
    /\ convOut = None

\* serde_json::to_value(&sk), and from_value of what it gave
WriteSigningKey ==
    /\ convIn[1] = "SigningKey" /\ convOut = None
    /\ LET j == SigningKey_ser(convIn[2])
       IN  convOut' = Some([json |-> j, back |-> SigningKey_de(j)])
    /\ UNCHANGED <<now, ty, env, nset, signer, encAt, encoded, token, edit, res,
                   cleanArg, cleanRes, hashRes, valVars, convIn>>

\* serde_json::from_value::<SigningKey>(j)
ReadSigningKey ==
    /\ convIn[1] = "json" /\ convOut = None
    /\ convOut' = Some([json |-> convIn[2], back |-> SigningKey_de(convIn[2])])
    /\ UNCHANGED <<now, ty, env, nset, signer, encAt, encoded, token, edit, res,
                   cleanArg, cleanRes, hashRes, valVars, convIn>>

SpecSigningKey == InitSigningKey /\ [][WriteSigningKey \/ ReadSigningKey]_vars

----------------------------------------------------------------------------
(* The validation collector (validation.rs). *)

Descriptions == {"d1", "d2"}
\* ValidationIssue
ValidationIssues ==
    [description : Descriptions, blocking : BOOLEAN, time_check : BOOLEAN]

issue_eq_description(a, b) == a.description = b.description

\* derive(Hash, Eq, PartialEq) on ValidationIssue: all three fields
issue_eq(a, b) == a = b

\* HashSet::insert: a value equal to one in the set is not added
insert(set, x) == IF \E y \in set : issue_eq(x, y) THEN set ELSE set \cup {x}

\* ValidationResults::new
ValidationResults_new == {}

\* ValidationResults::add_issue
add_issue(self, issue) == insert(self, issue)

add_error_timed(self, description) ==
    insert(self, [description |-> description, blocking |-> TRUE,
                  time_check |-> TRUE])

\* ValidationResults::add_error
add_error(self, description) ==
    insert(self, [description |-> description, blocking |-> TRUE,
                  time_check |-> FALSE])

\* ValidationResults::add_time_check
add_time_check(self, description) ==
    insert(self, [description |-> description, blocking |-> FALSE,
                  time_check |-> TRUE])

is_blocking_whenever(self, time_checks) == \E i \in self : i.blocking

\* ValidationResults::is_blocking
is_blocking(self, time_checks) ==
    \E i \in self : i.blocking /\ (~i.time_check \/ time_checks)

\* the record of a call that adds issue: what was added so far, the
\* descriptions given to add_error, the call, whether its issue had been
\* added before, and what is_blocking(true) and is_blocking(false) were
Called(call, issue) ==
    hist' = [added |-> hist.added \cup {issue},
             errors |-> IF call[1] = "add_error"
                        THEN hist.errors \cup {call[2]} ELSE hist.errors,
             last |-> call,
             dup |-> issue \in hist.added,
             before |-> <<is_blocking(issues, TRUE), is_blocking(issues, FALSE)>>]

InitValidation ==
    /\ now = 1 /\ ty = "Operator"
    /\ env = new_claims("Operator", "n", "U1")
    /\ nset = 0 /\ signer = NoKey /\ encAt = 0 /\ encoded = NoEnc
    /\ token = <<>> /\ edit = NoEdit /\ res = NoRes
    /\ cleanArg = "" /\ cleanRes = None /\ hashRes = NoRes
    /\ issues = ValidationResults_new /\ hist = NoHist /\ answer = None
    /\ convIn = <<>> /\ convOut = None

AddIssue(issue) ==
    /\ issues' = add_issue(issues, issue)
    /\ Called(<<"add_issue", issue.description>>, issue)
    /\ answer' = None
    /\ UNCHANGED <<now, ty, env, nset, signer, encAt, encoded, token, edit, res,
                   cleanArg, cleanRes, hashRes, callVars>>

AddError(d) ==
    /\ issues' = add_error(issues, d)
    /\ Called(<<"add_error", d>>,
              [description |-> d, blocking |-> TRUE, time_check |-> FALSE])
    /\ answer' = None
    /\ UNCHANGED <<now, ty, env, nset, signer, encAt, encoded, token, edit, res,
                   cleanArg, cleanRes, hashRes, callVars>>

AddTimeCheck(d) ==
    /\ issues' = add_time_check(issues, d)
    /\ Called(<<"add_time_check", d>>,
              [description |-> d, blocking |-> FALSE, time_check |-> TRUE])
    /\ answer' = None
    /\ UNCHANGED <<now, ty, env, nset, signer, encAt, encoded, token, edit, res,
                   cleanArg, cleanRes, hashRes, callVars>>

IsBlocking(time_checks) ==
    /\ answer' = Some(<<time_checks, is_blocking(issues, time_checks)>>)
    /\ UNCHANGED <<now, ty, env, nset, signer, encAt, encoded, token, edit, res,
                   cleanArg, cleanRes, hashRes, issues, hist, callVars>>

NextValidation ==
    \/ \E issue \in ValidationIssues : AddIssue(issue)
    \/ \E d \in Descriptions : AddError(d)
    \/ \E d \in Descriptions : AddTimeCheck(d)
    \/ \E time_checks \in BOOLEAN : IsBlocking(time_checks)

SpecValidation == InitValidation /\ [][NextValidation]_vars

----------------------------------------------------------------------------
(* Decoding against the clock.  The envelope's exp and nbf are public       *)
(* fields the caller assigns; the system clock is the wall clock, which may *)
(* be set back, and the decoder's clock need not be the encoder's.          *)

\* the instants the caller gives for exp and nbf
Instants == 0..MaxClock

\* claims.exp = Some(e); claims.nbf = Some(n)
SetTimes(e, n) ==
    /\ Fresh(ty, [env EXCEPT !.exp = Some(e), !.nbf = Some(n)], nset)
    /\ UNCHANGED <<now, cleanArg, cleanRes, hashRes>>
    /\ UNCHANGED <<valVars, callVars>>

\* the wall clock is set back by a second
ClockBack ==
    /\ now > 0
    /\ now' = now - 1
    /\ UNCHANGED <<ty, env, nset, signer, encAt, encoded, token, edit, res,
                   cleanArg, cleanRes, hashRes>>
    /\ UNCHANGED <<valVars, callVars>>

NextTime ==
    \/ Tick
    \/ ClockBack
    \/ \E T \in {"Operator", "Account", "User", "Activation"},
          name \in Names, nkey \in Nkeys : NewClaims(T, name, nkey)
    \/ \E nkey \in Nkeys : GenericClaim(nkey)
    \/ \E nkey \in Nkeys : NewAuthRequest(nkey)
    \/ \E e \in Instants, n \in Instants : SetTimes(e, n)
    \/ \E kp \in KeyPairs : Encode(kp)
    \/ Decode

SpecTime == Init /\ [][NextTime]_vars

----------------------------------------------------------------------------
(* Reading an envelope: serde_json::from_str::<Claims<T>> as test_decode    *)
(* calls it, and decode_claims::<Claims<T>> on a segment.                   *)

\* The token of test_decode, its strings shortened.
TestToken ==
    JObj({<<"aud", JStr("nats-authorization-request")>>,
          <<"exp", JNum(4)>>, <<"iat", JNum(2)>>,
          <<"iss", JStr("N1")>>, <<"jti", JStr("Z1")>>,
          <<"nats",
            JObj({<<"client_info",
                    JObj({<<"host", JStr("127.0.0.1")>>, <<"id", JNum(21)>>,
                          <<"kind", JStr("Client")>>, <<"name", JStr("cli")>>,
                          <<"name_tag", JStr("reg")>>, <<"nonce", JStr("6K")>>,
                          <<"type", JStr("nats")>>, <<"user", JStr("U1")>>})>>,
                  <<"connect_opts",
                    JObj({<<"auth_token", JStr("test")>>, <<"jwt", JStr("ey")>>,
                          <<"lang", JStr("go")>>, <<"name", JStr("cli")>>,
                          <<"protocol", JNum(1)>>, <<"sig", JStr("cM")>>,
                          <<"version", JStr("1.33.1")>>})>>,
                  <<"server_id",
                    JObj({<<"host", JStr("0.0.0.0")>>, <<"id", JStr("N1")>>,
                          <<"name", JStr("N1")>>, <<"version", JStr("2.10.18")>>,
                          <<"xkey", JStr("X1")>>})>>,
                  <<"type", JStr("authorization_request")>>,
                  <<"user_nkey", JStr("U2")>>,
                  <<"version", JNum(2)>>})>>,
          <<"sub", JStr("A1")>>})

\* The paths to the fields of a JSON object, nested ones included.
RECURSIVE Paths(_)
Paths(j) ==
    IF ~IsObj(j) THEN {}
    ELSE UNION {{<<k>>} \cup {<<k>> \o p : p \in Paths(j[2][k])} : k \in DOMAIN j[2]}

\* j with the value v at path p, the key added when it is not there
RECURSIVE Put(_, _, _)
Put(j, p, v) ==
    <<"obj", [k \in DOMAIN j[2] \cup (IF Len(p) = 1 THEN {p[1]} ELSE {}) |->
                IF k # p[1] THEN j[2][k]
                ELSE IF Len(p) = 1 THEN v
                ELSE Put(j[2][k], Tail(p), v)]>>

\* j without the key at path p
RECURSIVE Drop(_, _)
Drop(j, p) ==
    IF Len(p) = 1 THEN <<"obj", [k \in DOMAIN j[2] \ {p[1]} |-> j[2][k]]>>
    ELSE <<"obj", [k \in DOMAIN j[2] |->
                     IF k = p[1] THEN Drop(j[2][k], Tail(p)) ELSE j[2][k]]>>

\* What is done to one field of a text: the key removed, or its value made
\* null, a boolean, or a negative number.
Edits == {"drop", "null", "bool", "minus"}
EditAt(j, p, e) ==
    CASE e = "drop" -> Drop(j, p)
      [] e = "null" -> Put(j, p, JNull)
      [] e = "bool" -> Put(j, p, JBool(TRUE))
      [] e = "minus" -> Put(j, p, JNum(-1))
OneEdit(j) == {j} \cup {EditAt(j, p, e) : p \in Paths(j), e \in Edits}

\* TestToken with every optional field of the request given as well
TestTokenFull ==
    LET tls == JObj({<<"version", JStr("1.3")>>, <<"cipher", JStr("c")>>,
                     <<"certs", JStrs(<<"p">>)>>,
                     <<"verified_chains", JArr(<<JStrs(<<"p">>)>>)>>})
        j1 == Put(TestToken, <<"nats", "client_info", "tags">>, JStrs(<<"t">>))
        j2 == Put(j1, <<"nats", "client_info", "mqtt">>, JStr("m"))
        j3 == Put(j2, <<"nats", "connect_opts", "nkey">>, JStr("U1"))
        j4 == Put(j3, <<"nats", "connect_opts", "user">>, JStr("u"))
        j5 == Put(j4, <<"nats", "connect_opts", "pass">>, JStr("p"))
        j6 == Put(j5, <<"nats", "client_tls">>, tls)
        j7 == Put(j6, <<"nats", "request_nonce">>, JStr("r"))
        j8 == Put(j7, <<"nats", "server_id", "cluster">>, JStr("c"))
        j9 == Put(j8, <<"nats", "server_id", "tags">>, JStrs(<<"t">>))
    IN  Put(j9, <<"nats", "tags">>, JStrs(<<"t">>))

\* The texts read as Claims<AuthRequest>: the two tokens, each with at most
\* one field edited, and the token under each other type discriminant.  A
\* struct is never given as a JSON array here.
AuthRequestTexts ==
    OneEdit(TestToken) \cup OneEdit(TestTokenFull)
        \cup {Put(TestToken, <<"nats", "type">>, JStr(t)) :
                t \in ClaimTypes \cup {"other"}}

\* What new_claims writes for a user, and the same with the three NATS limits
\* that the user token inside test_decode's connect_opts.jwt carries
UserToken == Claims_ser("User", new_claims("User", "n", "U1"))
UserTokenLimited ==
    Put(Put(Put(UserToken, <<"nats", "subs">>, JNum(NO_LIMIT)),
            <<"nats", "data">>, JNum(NO_LIMIT)),
        <<"nats", "payload">>, JNum(NO_LIMIT))
\* The texts read as Claims<User>: the two tokens, each with at most one
\* field edited
UserTexts == OneEdit(UserToken) \cup OneEdit(UserTokenLimited)

ParseTexts ==
    {<<"AuthRequest", j>> : j \in AuthRequestTexts}
        \cup {<<"User", j>> : j \in UserTexts}

\* serde_json::from_str::<Claims<T>>
Claims_from_str(T, text) ==
    LET j == from_slice(text) IN
    IF ~j[1] \/ ~IsObj(j[2]) THEN Err("json")
    ELSE IF Claims_ok(T, j[2][2]) THEN Ok(Claims_de(T, j[2][2]))
         ELSE Err("json")

InitParse ==
    /\ now = 1 /\ ty = "AuthRequest"
    /\ env = [Claims_new(AuthRequest_literal) EXCEPT !.sub = "U1"]
    /\ nset = 0 /\ signer = NoKey /\ encAt = 0 /\ encoded = NoEnc
    /\ token = <<>> /\ edit = NoEdit /\ res = NoRes
    /\ cleanArg = "" /\ cleanRes = None /\ hashRes = NoRes
    /\ issues = {} /\ hist = NoHist /\ answer = None
    /\ convIn \in {<<"text", t[1], to_string(t[2])>> : t \in ParseTexts}
                    \cup {<<"segment", t[1], encode_jwt_segment(t[2])>> :
                            t \in ParseTexts}
                    \cup {<<"text", T, b>> :
                            T \in {"AuthRequest", "User"},
                            b \in {<<"junk", 1>>, to_string(JStr("x"))}}
                    \cup {<<"segment", T, s>> :
                            T \in {"AuthRequest", "User"},
                            s \in {<<"bad", 1>>, b64_encode(<<"junk", 1>>),
                                   encode_jwt_segment(JStr("x"))}}
    /\ convOut = None

\* let auth: Claims<T> = serde_json::from_str(token)
FromStr ==
    /\ convIn[1] = "text" /\ convOut = None
    /\ convOut' = Some(Claims_from_str(convIn[2], convIn[3]))
    /\ UNCHANGED <<now, ty, env, nset, signer, encAt, encoded, token, edit, res,
                   cleanArg, cleanRes, hashRes, valVars, convIn>>

\* decode_claims::<Claims<T>>(segment)
DecodeSegment ==
    /\ convIn[1] = "segment" /\ convOut = None
    /\ convOut' = Some(decode_claims(convIn[2], convIn[3]))
    /\ UNCHANGED <<now, ty, env, nset, signer, encAt, encoded, token, edit, res,
                   cleanArg, cleanRes, hashRes, valVars, convIn>>

SpecParse == InitParse /\ [][FromStr \/ DecodeSegment]_vars

----------------------------------------------------------------------------
(* The properties. *)

\* what a token text says, for a token whose payload segment is a JSON object
PayloadObject(tok) == tok[2][2][2][2]
IsJsonObject(seg) == seg[1] = "b64" /\ seg[2][1] = "json" /\ seg[2][2][1] = "obj"

\* the third segment is a signature, by the key the payload's iss names, over
\* the first two segments as they stand in the token
SigValid(tok) ==
    /\ Len(tok) = 3
    /\ IsJsonObject(tok[2])
    /\ "iss" \in DOMAIN PayloadObject(tok)
    /\ IsStr(PayloadObject(tok)["iss"])
    /\ PayloadObject(tok)["iss"][2] \in PublicKeys
    /\ tok[3][1] = "b64"
    /\ tok[3][2][1] = "sig"
    /\ tok[3][2][2] = PayloadObject(tok)["iss"][2]
    /\ tok[3][2][3] = <<tok[1], tok[2]>>

\* C1: decoding what encode gave, untouched, succeeds, and gives back the
\* payload and the sub, name, aud, exp and nbf of the envelope that was
\* encoded, with the signing key's public key as iss.
C1_RoundTrip ==
    (encoded.err = "" /\ edit = NoEdit /\ res # NoRes) =>
        /\ res.err = ""
        /\ res.val # None
        /\ The(res.val).nats = env.nats
        /\ The(res.val).sub = env.sub
        /\ The(res.val).name = env.name
        /\ The(res.val).aud = env.aud
        /\ The(res.val).exp = env.exp
        /\ The(res.val).nbf = env.nbf
        /\ The(res.val).iss = public_key(signer)

\* C2: decode returns a payload only for a token whose third segment is a
\* signature, by the key its payload's iss names, over the first two
\* segments exactly as transmitted; for every other token it returns an error
\* and no payload.
C2_SignatureSound ==
    res # NoRes =>
        /\ (res.val # None) <=> (res.err = "")
        /\ res.val # None => SigValid(token)
        /\ ~SigValid(token) => res.err # "" /\ res.val = None

\* a payload segment rewritten with other bytes for the same JSON value, and
\* signed again as rewritten, was decoded
C2_Witness ==
    /\ res.val # None
    /\ edit.p = "form" /\ edit.s \in {"K1", "K2"}
    /\ token[2] # The(encoded.val)[2]

\* one byte of the header segment or of the payload segment of an encoded
\* token was changed, and nothing else
OneByteChanged ==
    /\ encoded.err = ""
    /\ \/ edit.h \in ByteEdits /\ edit.p = "keep" /\ edit.s = "keep" /\ edit.n = "keep"
       \/ edit.h = "keep" /\ edit.p \in ByteEdits /\ edit.s = "keep" /\ edit.n = "keep"
       \/ edit.h = "keep" /\ edit.p = "keep" /\ edit.s = "keep" /\ edit.n = "dot"

\* C3, as claimed: after a one-byte change in the header or payload segment,
\* decode fails with a signature-invalid error and returns no payload.
C3_TamperSignatureInvalid ==
    (OneByteChanged /\ res # NoRes) =>
        /\ res.err # ""
        /\ ErrorKind(res.err) = "SignatureInvalidError"
        /\ res.val = None

\* C3, amended: after a one-byte change in the header or payload segment,
\* decode fails and returns no payload.  The failure is the first one on the
\* way: a format error when the text no longer splits in three or the header
\* no longer decodes, else an unsupported-header error when typ or alg
\* changed, else a format error when the payload does not decode, and a
\* signature-invalid error only when both segments still decode.
C3_TamperRejected ==
    (OneByteChanged /\ res # NoRes) =>
        /\ res.err # ""
        /\ res.val = None
        /\ ErrorKind(res.err) =
             IF edit.n = "dot" \/ edit.h \in {"junk", "bad"} THEN "FormatError"
             ELSE IF edit.h \in {"typ", "alg"} THEN "UnsupportedHeaderError"
             ELSE IF decode_claims(ty, token[2]).err # "" THEN "FormatError"
             ELSE "SignatureInvalidError"

\* the sub of a payload that still decodes was changed, and the signature
\* check refused the token
C3_Witness ==
    /\ OneByteChanged /\ edit.p = "sub"
    /\ decode_claims(ty, token[2]).err = ""
    /\ res.err = "verify"

\* the header segment decodes to a header whose typ or alg is not the fixed one
BadHeader(tok) ==
    /\ IsJsonObject(tok[1])
    /\ LET o == tok[1][2][2][2] IN
        /\ {"typ", "alg"} \subseteq DOMAIN o
        /\ IsStr(o["typ"]) /\ IsStr(o["alg"])
        /\ o["typ"][2] # "JWT" \/ o["alg"][2] # "ed25519-nkey"

\* C4: a three-segment token whose header has another typ or another alg is
\* refused with the unsupported-header error, and that is decided after the
\* split and the header alone: the payload is not parsed and the signature is
\* not looked at, however valid it is.
C4_HeaderRejectedFirst ==
    (res # NoRes /\ Len(token) = 3 /\ BadHeader(token)) =>
        /\ ErrorKind(res.err) = "UnsupportedHeaderError"
        /\ res.steps = <<"split", "header">>
        /\ res.val = None

\* a header with alg "rsa", a payload that decodes, and a valid signature over
\* the two, was decoded
C4_Witness ==
    /\ res # NoRes /\ edit.h = "rsa"
    /\ BadHeader(token) /\ SigValid(token)
    /\ decode_claims(ty, token[2]).err = ""

\* C5: a token text that does not split in exactly three parts is refused
\* with the invalid-format error, and nothing but the split was done.
C5_SegmentCount ==
    (res # NoRes /\ Len(token) # 3) =>
        /\ res.err = "Invalid JWT"
        /\ ErrorKind(res.err) = "FormatError"
        /\ res.steps = <<"split">>
        /\ res.val = None

\* a token of four parts, the first three of them a valid token, was decoded
C5_Witness ==
    /\ res # NoRes /\ Len(token) = 4
    /\ SigValid(SubSeq(token, 1, 3))

\* C6: whatever iss, iat and jti the caller's envelope holds, encoding with
\* the same key at the same second gives the same token; its iss is the
\* key's public key, its iat the clock at the encode, and its jti the hash of
\* its own JSON with the jti cleared.
C6_StampedNotTrusted ==
    encoded.err = "" =>
        /\ \A i \in {"", "K1", "K2", "X1"}, t \in {0, 9}, j \in {"", "J1"} :
              Claims_encode(ty, [env EXCEPT !.iss = i, !.iat = t, !.jti = j],
                            signer, encAt) = encoded
        /\ LET o == PayloadObject(The(encoded.val)) IN
            /\ o["iss"] = JStr(public_key(signer))
            /\ o["iat"] = JNum(encAt)
            /\ o["jti"] =
                 JStr(digest_base32(to_string(<<"obj", WithKey(o, "jti", JStr(""))>>)))

\* an envelope that names another issuer than the signing key was encoded
C6_Witness ==
    /\ encoded.err = ""
    /\ env.iss # "" /\ env.iss # public_key(signer)

\* the jti in an encoded token
TokenJti(enc) == PayloadObject(The(enc.val))["jti"][2]
\* the JSON text that Jwt::encode hashes for the envelope c
HashedJson(c) ==
    to_string(Claims_ser(ty, [c EXCEPT !.iat = encAt, !.iss = public_key(signer),
                                       !.jti = ""]))
\* the envelopes one assignment away from env
OneFieldAway == {assign(ty, env, f) : f \in Fields(ty) \ {"iss", "iat", "jti"}}

C8_CleanSubject ==
    cleanRes # None =>
        LET sp == split(cleanArg)
            wild == {i \in 1..Len(sp) : sp[i] \in {"*", ">"}}
            first == CHOOSE i \in wild : \A j \in wild : i <= j
        IN  The(cleanRes) = IF wild = {} THEN cleanArg
                            ELSE IF first = 1 THEN "_"
                            ELSE join(SubSeq(sp, 1, first - 1))

\* C9: Activation::hash gives the missing-data error, and takes no step
\* towards a hash, when iss, sub or import_subject is empty, and gives a hash
\* otherwise.
C9_HashMissingData ==
    hashRes # NoRes =>
        IF env.iss = "" \/ env.sub = "" \/ env.nats.import_subject = ""
        THEN /\ hashRes.err = "not enough data in the claim to hash"
             /\ ErrorKind(hashRes.err) = "MissingDataError"
             /\ hashRes.val = None
             /\ hashRes.steps = <<"check">>
        ELSE hashRes.err = "" /\ hashRes.val # None

\* a claim with an issuer and a subject and no import subject was refused
C9_Witness ==
    /\ hashRes.err = "not enough data in the claim to hash" /\ hashRes.val = None
    /\ env.iss # "" /\ env.sub # "" /\ env.nats.import_subject = ""

\* C10: for a claim with iss, sub and import_subject, the hash is the digest
\* of iss, sub and the cleaned import subject put end to end; every claim
\* with the same iss and sub and an import subject of the same cleaned form
\* has the same hash, whatever its other fields are.
C10_HashOfTriple ==
    (hashRes # NoRes /\ env.iss # "" /\ env.sub # ""
                     /\ env.nats.import_subject # "") =>
        /\ hashRes.val =
             Some(digest_base32(env.iss \o env.sub
                                \o clean_subject(env.nats.import_subject)))
        /\ \A c \in ActivationClaims :
              (/\ c.iss = env.iss /\ c.sub = env.sub
               /\ c.nats.import_subject # ""
               /\ clean_subject(c.nats.import_subject)
                     = clean_subject(env.nats.import_subject))
                  => Activation_hash(c).val = hashRes.val

\* a claim with a wildcard import subject and every other field set was
\* hashed, and a claim that differs in those fields and in the import subject
\* has the same cleaned form
C10_Witness ==
    /\ hashRes.err = "" /\ hashRes.val # None
    /\ env.nats.import_subject = "foo.>" /\ env.jti = "J1"
    /\ \E c \in ActivationClaims :
          /\ c.iss = env.iss /\ c.sub = env.sub
          /\ c.nats.import_subject = "foo.*" /\ c.jti # env.jti

\* C11: is_blocking(include_time_checks) answers true exactly when a stored
\* issue is blocking and is either not a time check or time checks are
\* included; with nothing stored it answers false, and when every stored
\* blocking issue is a time check it answers false without time checks and
\* true with them.
C11_IsBlocking ==
    answer # None =>
        LET tc == The(answer)[1]
            said == The(answer)[2]
            blockers == {i \in issues : i.blocking}
        IN  /\ said <=> \E i \in issues :
                            i.blocking = TRUE /\ (i.time_check = FALSE \/ tc = TRUE)
            /\ issues = {} => ~said
            /\ (blockers # {} /\ \A i \in blockers : i.time_check) => (said <=> tc)

\* with a blocking time check and a non-blocking issue stored,
\* is_blocking(false) answered false
C11_Witness ==
    /\ answer = Some(<<FALSE, FALSE>>)
    /\ \E i \in issues : i.blocking /\ i.time_check
    /\ \E i \in issues : ~i.blocking

\* C12: the collector holds exactly the distinct (description, blocking,
\* time_check) triples that were added, once each, whatever the order and
\* the number of the adds.
C12_CollectorIsSet ==
    /\ issues = hist.added
    /\ Cardinality(issues) = Cardinality(hist.added)
    /\ hist.last[1] \in {"add_issue", "add_error", "add_time_check"} =>
          \E i \in issues : i.description = hist.last[2]

\* an issue that had been added before was added again, to a collector that
\* holds another issue of the same description
C12_Witness ==
    /\ hist.dup
    /\ \E i, j \in issues : i # j /\ i.description = j.description
                                  /\ i.description = hist.last[2]

\* C13: add_error(d) stores (d, blocking, not a time check), and from then
\* on is_blocking answers true for both arguments; add_time_check(d) stores
\* (d, not blocking, time check) and leaves both answers of is_blocking as
\* they were.
C13_Shorthands ==
    /\ hist.last[1] = "add_error" =>
          [description |-> hist.last[2], blocking |-> TRUE, time_check |-> FALSE]
              \in issues
    /\ hist.errors # {} =>
          /\ is_blocking(issues, TRUE) /\ is_blocking(issues, FALSE)
          /\ answer # None => The(answer)[2]
    /\ hist.last[1] = "add_time_check" =>
          /\ [description |-> hist.last[2], blocking |-> FALSE, time_check |-> TRUE]
                \in issues
          /\ <<is_blocking(issues, TRUE), is_blocking(issues, FALSE)>> = hist.before

\* after an add_error and then an add_time_check, is_blocking(false)
\* answered true
C13_Witness ==
    /\ hist.errors # {} /\ hist.last[1] = "add_time_check"
    /\ answer = Some(<<FALSE, TRUE>>)

\* C14: a freshly defaulted Account has limits; its NATS limits subs, data
\* and payload are -1; its account limits imports, exports, conn and leaf
\* are -1 and wildcard_exports is true; disallow_bearer, the JetStream limits
\* and the tiered limits are unset.
C14_AccountSentinels ==
    (ty = "Account" /\ nset = 0) =>
        /\ env.nats.limits # None
        /\ LET l == The(env.nats.limits) IN
            /\ l.nats = Some([subs |-> Some(-1), data |-> Some(-1),
                              payload |-> Some(-1)])
            /\ l.account # None
            /\ The(l.account).imports = Some(-1)
            /\ The(l.account).exports = Some(-1)
            /\ The(l.account).conn = Some(-1)
            /\ The(l.account).leaf = Some(-1)
            /\ The(l.account).wildcard_exports = Some(TRUE)
            /\ The(l.account).disallow_bearer = None
            /\ l.jetstream = None
            /\ l.tiered_limits = None

\* Account::new_claims("n", "U1") was called and nothing was assigned since
C14_Witness ==
    /\ ty = "Account" /\ nset = 0
    /\ env.name = Some("n") /\ env.sub = "U1"

\* the discriminant of each payload variant
Discriminant(T) ==
    CASE T = "Operator" -> "operator"
      [] T = "Account" -> "account"
      [] T = "User" -> "user"
      [] T = "Activation" -> "activation"
      [] T = "AuthRequest" -> "authorization_request"
      [] T = "AuthResponse" -> "authorization_response"
\* an envelope as a constructor leaves it, but for sub and name
FreshEnvelope(c, T) ==
    /\ c.iat = 0 /\ c.iss = "" /\ c.jti = ""
    /\ c.aud = None /\ c.exp = None /\ c.id = None /\ c.nbf = None
    /\ c.nats.generic_fields.claim_type = Discriminant(T)
    /\ c.nats.generic_fields.version = 2

\* C15: every default-constructed payload carries its own discriminant and
\* version 2, and every claims constructor returns an envelope with sub the
\* given identifier, name the given name if it takes one, iat 0, iss and jti
\* empty and aud, exp, id and nbf unset.
C15_Constructors ==
    [][/\ \A T \in {"Operator", "Account", "User", "Activation"},
             name \in Names, nkey \in Nkeys :
             NewClaims(T, name, nkey) =>
                 /\ FreshEnvelope(env', T)
                 /\ env'.sub = nkey /\ env'.name = Some(name)
       /\ \A nkey \in Nkeys :
             GenericClaim(nkey) =>
                 FreshEnvelope(env', "AuthResponse") /\ env'.sub = nkey
       /\ \A T \in Defaultable :
             NewDefault(T) =>
                 /\ env'.nats.generic_fields.claim_type = Discriminant(T)
                 /\ env'.nats.generic_fields.version = 2]_vars

RECURSIVE NullOutsideInfo(_)
\* a JSON value that holds, at any depth, a null under a key other than info
NullOutsideInfo(j) ==
    CASE j[1] = "obj" ->
            \E k \in DOMAIN j[2] :
                \/ k # "info" /\ IsNullJ(j[2][k])
                \/ ~IsNullJ(j[2][k]) /\ NullOutsideInfo(j[2][k])
      [] j[1] = "arr" -> \E i \in 1..Len(j[2]) : NullOutsideInfo(j[2][i])
      [] j[1] = "null" -> TRUE
      [] OTHER -> FALSE

\* C16: the JSON of an encoded token never holds a null, at any depth of the
\* envelope or the payload, except under a key info: an optional field that
\* is unset is left out.
C16_NoNulls ==
    encoded.err = "" =>
        ~NullOutsideInfo(<<"obj", PayloadObject(The(encoded.val))>>)

\* C17: a SigningKey with no scope is written as its key string and read
\* back as that key with no scope; one with a scope is written as the
\* UserScope object and read back with that scope and the scope's key; so
\* every SigningKey is read back equal to what was written; and a string is
\* never read as a scope, nor an object as a bare key.
C17_SigningKeyRoundTrip ==
    convOut # None =>
        LET json == The(convOut).json
            back == The(convOut).back
        IN  /\ convIn[1] = "SigningKey" =>
                /\ back.err = ""
                /\ convIn[2].scope = None =>
                      /\ json = JStr(convIn[2].key)
                      /\ The(back.val) = [key |-> convIn[2].key, scope |-> None]
                /\ convIn[2].scope # None =>
                      /\ IsObj(json)
                      /\ The(back.val).scope = convIn[2].scope
                      /\ The(back.val).key = The(convIn[2].scope).key
                /\ The(back.val) = convIn[2]
            /\ (back.err = "" /\ IsStr(json)) => The(back.val).scope = None
            /\ (back.err = "" /\ IsObj(json)) => The(back.val).scope # None

\* The shape serde expects of each struct, from its declaration: the set of
\* <<key, kind, mode>> of its fields, flattened structs included field by
\* field.  Mode "req" is a field that must be there, "opt" an Option (absent
\* or null is unset), "dflt" a field with a default (absent is the default).
EnvelopeShape ==
    {<<"aud", "str", "opt">>, <<"exp", "i", "opt">>, <<"iat", "u", "req">>,
     <<"id", "str", "opt">>, <<"iss", "str", "req">>, <<"jti", "str", "req">>,
     <<"name", "str", "opt">>, <<"nbf", "i", "opt">>, <<"sub", "str", "req">>}
GenericShape ==
    {<<"tags", "strs", "opt">>, <<"type", "type", "req">>, <<"version", "u", "req">>}
Shape(S) ==
    CASE S = "Claims<AuthRequest>" -> EnvelopeShape \cup {<<"nats", "AuthRequest", "req">>}
      [] S = "Claims<User>" -> EnvelopeShape \cup {<<"nats", "User", "req">>}
      [] S = "AuthRequest" ->
            {<<"server_id", "ServerID", "req">>, <<"user_nkey", "str", "req">>,
             <<"client_info", "ClientInfo", "req">>,
             <<"connect_opts", "ConnectOpts", "req">>,
             <<"client_tls", "ClientTLS", "opt">>,
             <<"request_nonce", "str", "opt">>} \cup GenericShape
      [] S = "ServerID" ->
            {<<"name", "str", "req">>, <<"host", "str", "req">>,
             <<"id", "str", "req">>, <<"version", "str", "opt">>,
             <<"cluster", "str", "opt">>, <<"tags", "strs", "opt">>,
             <<"xkey", "str", "opt">>}
      [] S = "ClientInfo" ->
            {<<"host", "str", "req">>, <<"id", "u", "req">>, <<"user", "str", "req">>,
             <<"name", "str", "opt">>, <<"tags", "strs", "opt">>,
             <<"name_tag", "str", "req">>, <<"kind", "str", "req">>,
             <<"type", "str", "req">>, <<"mqtt", "str", "opt">>,
             <<"nonce", "str", "req">>}
      [] S = "ConnectOpts" ->
            {<<k, "str", "opt">> : k \in {"jwt", "nkey", "sig", "auth_token", "user",
                                          "pass", "name", "lang", "version"}}
                \cup {<<"protocol", "u", "req">>}
      [] S = "ClientTLS" ->
            {<<"version", "str", "req">>, <<"cipher", "str", "req">>,
             <<"certs", "strs", "req">>, <<"verified_chains", "strss", "req">>}
      [] S = "User" ->
            {<<"issuer_account", "str", "opt">>,
             <<"pub", "Permission", "dflt">>, <<"sub", "Permission", "dflt">>,
             <<"resp", "ResponsePermission", "opt">>,
             <<"src", "strs", "opt">>, <<"times", "times", "opt">>,
             <<"locale", "str", "opt">>,
             <<"subs", "i", "opt">>, <<"data", "i", "opt">>, <<"payload", "i", "opt">>,
             <<"bearer_token", "bool", "opt">>,
             <<"allowed_connection_types", "strs", "opt">>} \cup GenericShape
      [] S = "Permission" -> {<<"allow", "strs", "dflt">>, <<"deny", "strs", "dflt">>}
      [] S = "ResponsePermission" -> {<<"max", "i", "req">>, <<"ttl", "u", "req">>}
      [] S = "TimeRange" -> {<<"start", "str", "req">>, <<"end", "str", "req">>}

\* j has the kind: a scalar kind, a list kind, or the name of a struct, every
\* field of which is there when required and of its kind when there
RECURSIVE Conforms(_, _)
Conforms(kind, j) ==
    CASE kind = "str" -> j[1] = "str"
      [] kind = "i" -> j[1] = "num"
      [] kind = "u" -> j[1] = "num" /\ j[2] >= 0
      [] kind = "bool" -> j[1] = "bool"
      [] kind = "type" -> j[1] = "str" /\ j[2] \in ClaimTypes
      [] kind = "strs" ->
            j[1] = "arr" /\ \A i \in 1..Len(j[2]) : Conforms("str", j[2][i])
      [] kind = "strss" ->
            j[1] = "arr" /\ \A i \in 1..Len(j[2]) : Conforms("strs", j[2][i])
      [] kind = "times" ->
            j[1] = "arr" /\ \A i \in 1..Len(j[2]) : Conforms("TimeRange", j[2][i])
      [] OTHER ->
            /\ j[1] = "obj"
            /\ \A f \in Shape(kind) :
                 IF f[1] \notin DOMAIN j[2] THEN f[3] # "req"
                 ELSE IF j[2][f[1]] = JNull THEN f[3] = "opt"
                 ELSE Conforms(f[2], j[2][f[1]])

\* the JSON value that convIn holds, when it holds one
GivenJson ==
    LET text == IF convIn[1] = "segment"
                THEN IF convIn[3][1] = "b64" THEN convIn[3][2] ELSE <<"junk", 0>>
                ELSE convIn[3]
    IN  IF text[1] = "json" THEN Some(text[2]) ELSE None

\* the Option read from key k of o holds what o gives, and is unset when o
\* gives nothing
KeepsStr(o, k, opt) == opt = IF Unset(o, k) THEN None ELSE Some(o[k][2])
KeepsStrs(o, k, opt) ==
    opt = IF Unset(o, k) THEN None
          ELSE Some([i \in 1..Len(o[k][2]) |-> o[k][2][i][2]])

\* the Claims<AuthRequest> c read from the object o has the fields of o
ReadsAuthRequest(o, c) ==
    LET n == o["nats"][2]
        ci == n["client_info"][2]
        co == n["connect_opts"][2]
        sv == n["server_id"][2]
    IN  /\ c.iat = o["iat"][2] /\ c.iss = o["iss"][2] /\ c.jti = o["jti"][2]
        /\ c.sub = o["sub"][2]
        /\ KeepsStr(o, "aud", c.aud) /\ KeepsStr(o, "exp", c.exp)
        /\ KeepsStr(o, "nbf", c.nbf) /\ KeepsStr(o, "name", c.name)
        /\ c.nats.user_nkey = n["user_nkey"][2]
        /\ c.nats.client_info.user = ci["user"][2]
        /\ c.nats.client_info.host = ci["host"][2]
        /\ c.nats.client_info.id = ci["id"][2]
        /\ c.nats.client_info.nonce = ci["nonce"][2]
        /\ KeepsStrs(ci, "tags", c.nats.client_info.tags)
        /\ KeepsStr(ci, "mqtt", c.nats.client_info.mqtt)
        /\ KeepsStr(ci, "name", c.nats.client_info.name)
        /\ c.nats.connect_opts.protocol = co["protocol"][2]
        /\ KeepsStr(co, "nkey", c.nats.connect_opts.nkey)
        /\ KeepsStr(co, "user", c.nats.connect_opts.user)
        /\ KeepsStr(co, "pass", c.nats.connect_opts.pass)
        /\ KeepsStr(co, "jwt", c.nats.connect_opts.jwt)
        /\ (c.nats.client_tls = None) = Unset(n, "client_tls")
        /\ KeepsStr(n, "request_nonce", c.nats.request_nonce)
        /\ c.nats.server.name = sv["name"][2]
        /\ KeepsStr(sv, "cluster", c.nats.server.cluster)
        /\ KeepsStrs(sv, "tags", c.nats.server.tags)
        /\ KeepsStr(sv, "version", c.nats.server.version)
        /\ c.nats.generic_fields.claim_type = n["type"][2]

\* the result r of reading convIn as a Claims<T> is as C18 has it
ParsedAsShaped(r) ==
    LET T == convIn[2]
        wellFormed == \E j \in GivenJson : Conforms("Claims<" \o T \o ">", j)
    IN  /\ (r.err = "") = wellFormed
        /\ r.err # "" => r.val = None /\ ErrorKind(r.err) = "FormatError"
        /\ r.err = "" /\ T = "AuthRequest" =>
              ReadsAuthRequest(The(GivenJson)[2], The(r.val))

\* C18: a text or a segment reads as a Claims<T> exactly when it holds a JSON
\* object in which every required field is there, every field that is there
\* has its type, and the type discriminant is one of the closed set; what is
\* read has each optional field unset when the JSON leaves it out and each
\* given field with its value; every failure is a FormatError.
C18_ParseByShape == \A r \in convOut : ParsedAsShaped(r)

\* the header segment holds the fixed typ and alg
GoodHeader(tok) ==
    /\ IsJsonObject(tok[1])
    /\ LET o == tok[1][2][2][2] IN
        /\ {"typ", "alg"} \subseteq DOMAIN o
        /\ o["typ"] = JStr("JWT") /\ o["alg"] = JStr("ed25519-nkey")

\* a token that is correctly signed: three segments, the fixed header, a
\* payload that reads as a Claims<ty>, and a signature over the two by the
\* key the payload names.  Nothing here looks at the clock.
CorrectlySigned(tok) ==
    /\ SigValid(tok) /\ GoodHeader(tok)
    /\ decode_claims(ty, tok[2]).err = ""

\* at every decode the outcome is what the token alone decides
OutcomeByTokenAlone ==
    res # NoRes =>
        /\ (res.err = "") = CorrectlySigned(token)
        /\ res.err = "" => res.val = decode_claims(ty, token[2]).val

\* a token decoded once gives the same outcome when decoded again, whatever
\* the clock has done in between
SameAtEveryClock == (Decode /\ res # NoRes) => res' = res

\* C19: decode makes no time-based check.  A token decodes exactly when it is
\* correctly signed, wherever its exp, nbf and iat lie against the clock, and
\* then returns its payload; decoding it again at another clock value gives
\* the same outcome.
C19_NoTimeCheck == []OutcomeByTokenAlone /\ [][SameAtEveryClock]_vars

\* a token was decoded successfully at a clock value after its exp, before
\* its nbf and before its iat
C19_Witness ==
    /\ res.err = ""
    /\ \E c \in res.val :
         /\ \E e \in c.exp : e < now
         /\ \E n \in c.nbf : n > now
         /\ c.iat > now
====
